---- MODULE Spec2Model ----
(***************************************************************************)
(* A state-machine model of the Bot class of src/bot/bot.js: the          *)
(* connection lifecycle (keep-alive interval, reconnect timeouts), the     *)
(* table of tracked conversations and the handlers that normalise the     *)
(* transport's notifications.                                              *)
(*                                                                         *)
(* The process is single threaded: the event loop takes one event (a       *)
(* transport event or an expired timer), runs its handler to completion    *)
(* and returns.  Each handler is one action.  `last` records the event     *)
(* handled in the current turn of the loop with the transport calls and    *)
(* downstream events the handler produced, in order; TurnEnds is the loop  *)
(* going back to wait for the next event.                                  *)
(***************************************************************************)
EXTENDS Integers, Sequences, FiniteSets, Bags, TLC

VARIABLES
    timeouts,                   \* pending setTimeout callbacks of _reconnect
    _retryConnection,           \* this._retryConnection: handle of a timeout (0: undefined)
    intervals,                  \* handles of the active setInterval keep-alive timers
    _pingClock,                 \* this._pingClock: handle of an interval (0: undefined)
    myConversations,            \* this.myConversations
    lastChange,                 \* history: per conversation id, the type of the latest change record delivered
    subscribed,                 \* history: the ids subscribed to messaging events since the latest connected event
    initialState,               \* this.initialState
    subscribeAllConversations,  \* this.subscribeAllConversations
    pending,                    \* the completion callbacks of the transport calls in flight
    last,                       \* the event handled in this turn and what its handler did
    phase,                      \* history: the latest of the connected/closed events handled
    nClosed,                    \* history: closed events handled
    nConnected,                 \* history: connected events handled
    reconnects                  \* history: transport reconnect() calls since that latest event

vars == <<timeouts, _retryConnection, intervals, _pingClock, myConversations,
          lastChange, subscribed, initialState, subscribeAllConversations, pending, last, phase,
          nClosed, nConnected, reconnects>>

connVars == <<timeouts, _retryConnection, intervals, _pingClock>>
convVars == <<myConversations, lastChange, subscribed>>
histVars == <<phase, nClosed, nConnected, reconnects>>
cfgVars == <<initialState, subscribeAllConversations>>

-----------------------------------------------------------------------------
(* botConfig *)

clockPingInterval == 300
reconnectAttempts == 35
reconnectInterval == 5

(* Bounds of the model *)

\* closed events the transport delivers in one run
MaxClosed == 1
\* connected events the transport delivers in one run
MaxConnected == 1
\* change records in one conversation-change notification
MaxConvBatch == 2
\* changes in one messaging-event notification
MaxMsgBatch == 3
\* changes in one routing-task notification
MaxRoutingBatch == 2
\* changes in one messaging-event notification of the agent sample
MaxAgentBatch == 2
\* identical completion callbacks counted in flight: a count of MaxInFlight
\* stands for that many or more
MaxInFlight == 2
\* callbacks in flight beyond which the calls session delivers no new event
MaxBacklog == 3

\* The conversation ids the transport reports.
ConvIds == {"c1", "c2"}

\* Conversation ids that are also names of properties the table inherits:
\* one it has from Object.prototype, the one that names the prototype, and
\* one it has from the entry put in the prototype's place.
InheritedIds == {"constructor", "__proto__", "convId"}

-----------------------------------------------------------------------------
(* Values *)

\* this.agentId
agentId == "bot"

Min(a, b) == IF a <= b THEN a ELSE b

\* A natural number of any size, as the sequence of its digits in base
\* 2^LimbBits, lowest digit first and no leading zero digit: the integers of
\* the checker have 32 bits, the mantissa of a double has 53.
LimbBits == 12
Limb == 2 ^ LimbBits

RECURSIVE BigTrim(_)
BigTrim(a) ==
    IF a = <<>> \/ a[Len(a)] # 0 THEN a ELSE BigTrim(SubSeq(a, 1, Len(a) - 1))

\* Carries the digits of a, each below 2^31 - Limb, into range, with carry
\* added at place i.
RECURSIVE BigCarry(_, _, _)
BigCarry(a, i, carry) ==
    IF i > Len(a)
    THEN IF carry = 0 THEN <<>> ELSE <<carry % Limb>> \o BigCarry(a, i, carry \div Limb)
    ELSE <<(a[i] + carry) % Limb>> \o BigCarry(a, i + 1, (a[i] + carry) \div Limb)

\* a * b; the columns of the long multiplication stay below 2^31 for numbers
\* of up to 100 digits.
BigMul(a, b) ==
    IF a = <<>> \/ b = <<>>
    THEN <<>>
    ELSE LET column(k) ==
                 LET terms == [i \in 1..Len(a) |->
                                  IF k + 1 - i \in 1..Len(b) THEN a[i] * b[k + 1 - i] ELSE 0]
                     sum[i \in 0..Len(a)] == IF i = 0 THEN 0 ELSE sum[i - 1] + terms[i]
                 IN  sum[Len(a)]
         IN  BigTrim(BigCarry([k \in 1..(Len(a) + Len(b) - 1) |-> column(k)], 1, 0))

\* The number of binary digits of a
BigBitLen(a) ==
    IF a = <<>>
    THEN 0
    ELSE LimbBits * (Len(a) - 1)
         + (CHOOSE k \in 1..LimbBits : 2 ^ (k - 1) <= a[Len(a)] /\ a[Len(a)] < 2 ^ k)

\* a * 2^s
BigShiftLeft(a, s) ==
    IF a = <<>>
    THEN <<>>
    ELSE BigTrim(BigCarry([i \in 1..(s \div LimbBits) |-> 0]
                          \o [i \in 1..Len(a) |-> a[i] * (2 ^ (s % LimbBits))], 1, 0))

\* floor(a / 2^s)
BigShiftRight(a, s) ==
    LET drop == s \div LimbBits
        r == s % LimbBits
        rest == IF drop >= Len(a) THEN <<>> ELSE SubSeq(a, drop + 1, Len(a))
    IN  BigTrim([i \in 1..Len(rest) |->
                    (rest[i] \div (2 ^ r))
                    + ((IF i < Len(rest) THEN rest[i + 1] ELSE 0) % (2 ^ r)) * (2 ^ (LimbBits - r))])

\* a mod 2^s
BigLowBits(a, s) ==
    BigTrim([i \in 1..Len(a) |->
                IF i <= s \div LimbBits THEN a[i]
                ELSE IF i = s \div LimbBits + 1 THEN a[i] % (2 ^ (s % LimbBits))
                ELSE 0])

\* floor(a / k) and a mod k for a small k, from the digit at place i down
RECURSIVE BigDivSmallFrom(_, _, _, _)
BigDivSmallFrom(a, k, i, rem) ==
    IF i = 0
    THEN [quot |-> <<>>, rem |-> rem]
    ELSE LET cur == rem * Limb + a[i]
             below == BigDivSmallFrom(a, k, i - 1, cur % k)
         IN  [quot |-> below.quot \o <<cur \div k>>, rem |-> below.rem]

\* The number of zero binary digits a ends with, for a # 0
RECURSIVE BigTrailingZeros(_)
BigTrailingZeros(a) ==
    IF a[1] = 0
    THEN LimbBits + BigTrailingZeros(Tail(a))
    ELSE CHOOSE k \in 0..(LimbBits - 1) : a[1] % (2 ^ k) = 0 /\ a[1] % (2 ^ (k + 1)) # 0

\* A Number of the program: an IEEE 754 double, the value  man * 2^exp  with
\* man odd (or zero), 53 binary digits at most.
MantissaBits == 53

DoubleOf(man, exp) ==
    IF man = <<>>
    THEN [man |-> <<>>, exp |-> 0]
    ELSE LET z == BigTrailingZeros(man)
         IN  [man |-> BigShiftRight(man, z), exp |-> exp + z]

\* The double nearest to  man * 2^exp  (or to a value just above it when
\* sticky holds), ties to the even mantissa.
RoundToDouble(man, exp, sticky) ==
    LET n == BigBitLen(man)
    IN  IF n <= MantissaBits
        THEN DoubleOf(man, exp)
        ELSE LET s == n - MantissaBits
                 q == BigShiftRight(man, s)
                 rest == BigLowBits(man, s)
                 half == BigShiftLeft(<<1>>, s - 1)
                 above == BigBitLen(rest) = s /\ rest # half
                 up == above \/ (rest = half /\ (sticky \/ q[1] % 2 = 1))
             IN  DoubleOf(IF up THEN BigTrim(BigCarry(q, 1, 1)) ELSE q, exp + s)

\* An integer literal below 2^31 as a Number
Double(n) == DoubleOf(BigCarry(<<>>, 1, n), 0)

\* The decimal literal num/den (1.2 is 12/10) as a Number: the nearest double
DoubleOfFraction(num, den) ==
    LET shifted == BigShiftLeft(BigCarry(<<>>, 1, num), 64)
        d == BigDivSmallFrom(shifted, den, Len(shifted), 0)
    IN  RoundToDouble(BigTrim(d.quot), -64, d.rem # 0)

\* x * y of two Numbers
DoubleTimes(x, y) == RoundToDouble(BigMul(x.man, y.man), x.exp + y.exp, FALSE)

\* botConfig.reconnectRatio: the literal 1.2
reconnectRatio == DoubleOfFraction(12, 10)

\* The delays of one reconnect chain, 5, 5 * 1.2, 5 * 1.2 * 1.2, ..., and
\* each of them times 1000: the products are computed once and looked up.
ChainProducts ==
    LET chain[n \in 1..(reconnectAttempts + 1)] ==
            IF n = 1
            THEN Double(reconnectInterval)
            ELSE CHOOSE next \in {DoubleTimes(delay, reconnectRatio) :
                                     delay \in {chain[n - 1]}} : TRUE
    IN  [n \in 1..reconnectAttempts |->
            [delay |-> chain[n], timesRatio |-> chain[n + 1],
             timesThousand |-> DoubleTimes(chain[n], Double(1000))]]

\* delay * botConfig.reconnectRatio
TimesRatio(delay) ==
    IF \E n \in DOMAIN ChainProducts : ChainProducts[n].delay = delay
    THEN ChainProducts[CHOOSE n \in DOMAIN ChainProducts :
                          ChainProducts[n].delay = delay].timesRatio
    ELSE DoubleTimes(delay, reconnectRatio)

\* delay * 1000, the milliseconds given to setTimeout
Milliseconds(delay) ==
    IF \E n \in DOMAIN ChainProducts : ChainProducts[n].delay = delay
    THEN ChainProducts[CHOOSE n \in DOMAIN ChainProducts :
                          ChainProducts[n].delay = delay].timesThousand
    ELSE DoubleTimes(delay, Double(1000))

\* An optional value: undefined, or the value.
None == <<>>
Some(v) == <<v>>

\* What a completion callback refers to besides the outcome (e, resp): the
\* variables of the enclosing call that its body reads.
Closure(conv, role, announce) == [conv |-> conv, role |-> role, announce |-> announce]
NoClosure == Closure("", "", None)

\* A transport call with a completion callback, as the handler issues it.
CallWith(name, conv, seqs, info, closure) ==
    [kind |-> "call", name |-> name, conv |-> conv, seqs |-> seqs, info |-> info,
     cb |-> Some(closure)]

Call(name, conv, seqs, info) == CallWith(name, conv, seqs, info, NoClosure)

\* A transport call given no callback.
CallNoCallback(name, conv, seqs, info) ==
    [kind |-> "call", name |-> name, conv |-> conv, seqs |-> seqs, info |-> info,
     cb |-> None]

\* A downstream event.
Emit(name, conv, seqs, info) ==
    [kind |-> "emit", name |-> name, conv |-> conv, seqs |-> seqs, info |-> info,
     cb |-> None]

\* The callbacks the transport holds for the calls of a handler, one for
\* each call: a bag, since the callbacks of two calls of the same method with
\* the same closure run the same code on the same values.
Callbacks(effects) ==
    LET withCallback == {j \in 1..Len(effects) : effects[j].cb # None}
        callback(j) == [name |-> effects[j].name, closure |-> effects[j].cb[1]]
    IN  [c \in {callback(j) : j \in withCallback} |->
            Cardinality({j \in withCallback : callback(j) = c})]

\* The callbacks in flight once those of a handler are added; identical
\* callbacks are counted up to MaxInFlight.
InFlight(held, added) ==
    LET all == held (+) added
    IN  [c \in DOMAIN all |-> Min(all[c], MaxInFlight)]

\* The callbacks in flight once the transport has run cb: one fewer, or, of
\* MaxInFlight or more, possibly as many as the model counts.
AfterCompletion(held, cb) ==
    {held (-) SetToBag({cb})} \cup (IF CopiesIn(cb, held) = MaxInFlight THEN {held} ELSE {})

\* Bot.const
CONTENT_NOTIFICATION == "Bot.Event.Content"
CONVERSATION_NOTIFICATION == "Bot.Event.Conversation"
ROUTING_NOTIFICATION == "Bot.Event.Routing"
AGENT_STATE_NOTIFICATION == "Bot.Event.AgentState"
CONNECTED == "Bot.Connected"
SOCKET_CLOSED == "Bot.SocketClosed"
ERROR == "Bot.Error"

\* The loop is waiting: no handler has run in this turn.
NoEvent == [event |-> "none", effects |-> <<>>]
Idle == last.event = "none"

\* A timer handle that no live timer of the same kind carries.
FreshHandle(used) == CHOOSE h \in 1..(Cardinality(used) + 1) :
                        /\ h \notin used
                        /\ \A g \in 1..(Cardinality(used) + 1) : g \notin used => h <= g

TimeoutIds(ts) == {t.id : t \in ts}

\* clearTimeout(handle)
clearTimeout(ts, handle) == {t \in ts : t.id # handle}

\* clearInterval(handle)
clearInterval(is, handle) == is \ {handle}

\* The history counter `reconnects` saturates one past the configured number
\* of attempts: "more than 35".
ReconnectsCap == reconnectAttempts + 1

\* The names of the properties a plain object inherits from Object.prototype.
ObjectPrototypeNames ==
    {"constructor", "hasOwnProperty", "isPrototypeOf", "propertyIsEnumerable",
     "toLocaleString", "toString", "valueOf", "__proto__", "__defineGetter__",
     "__defineSetter__", "__lookupGetter__", "__lookupSetter__"}

\* An object with string keys, as the function of its own properties.  The
\* key "__proto__" is no own property: assigning an object to it replaces the
\* prototype of the table by that object (kept under that key), and delete
\* leaves it as it is.
Put(obj, key, value) ==
    [k \in DOMAIN obj \cup {key} |-> IF k = key THEN value ELSE obj[k]]

Remove(obj, key) ==
    IF key = "__proto__" THEN obj ELSE [k \in DOMAIN obj \ {key} |-> obj[k]]

\* {} as the value of a tracked conversation: every property is undefined.
EmptyEntry ==
    [convId |-> None, conversationDetails |-> None, consumerProfile |-> None,
     lastContentEventNotification |-> None]

\* this.myConversations = {}
EmptyTable == [k \in {} |-> EmptyEntry]

\* obj[key] of the table, as the code reads the value: undefined, or what
\* the properties of an entry are in it.  The own property comes first.  Then
\* the prototype: Object.prototype, or the entry that an assignment to
\* "__proto__" has put in its place, whose defined properties are found
\* under their names (a text, the details, the reduced notification: truthy,
\* with none of the properties of an entry).  Then the members every object
\* inherits from Object.prototype (functions and objects: truthy, with none
\* of the properties of an entry).
Get(obj, key) ==
    IF key = "__proto__"
    THEN Some(IF key \in DOMAIN obj THEN obj[key] ELSE EmptyEntry)
    ELSE IF key \in DOMAIN obj
    THEN Some(obj[key])
    ELSE IF /\ "__proto__" \in DOMAIN obj
            /\ key \in DOMAIN obj["__proto__"]
            /\ obj["__proto__"][key] # None
    THEN Some(EmptyEntry)
    ELSE IF key \in ObjectPrototypeNames
    THEN Some(EmptyEntry)
    ELSE None

-----------------------------------------------------------------------------
(* The reconnect timer *)

\* Mutation: the bound test is `<` instead of `<=`.
RetryNext_OffByOne(delay, attempt) ==
    IF attempt + 1 < reconnectAttempts
    THEN {[delay |-> TimesRatio(delay), attempt |-> attempt + 1]}
    ELSE {}

\* Mutation: the callback re-arms itself with the arguments it was given.
RetryNext_SameArguments(delay, attempt) ==
    {[delay |-> delay, attempt |-> attempt]}

\* The tail of the timeout callback: the arguments of the next _reconnect
\* call, if there is one.
RetryNext(delay, attempt) ==
    IF attempt + 1 <= reconnectAttempts
    THEN {[delay |-> TimesRatio(delay), attempt |-> attempt + 1]}
    ELSE {}

\* _reconnect(delay, attempt): setTimeout(callback, delay * 1000), the handle
\* stored in this._retryConnection.
_reconnect(ts, delay, attempt) ==
    LET h == FreshHandle(TimeoutIds(ts))
    IN  [timeouts |-> ts \cup {[id |-> h, delay |-> delay, attempt |-> attempt,
                                 ms |-> Milliseconds(delay)]},
         handle |-> h]

-----------------------------------------------------------------------------
(* Initial state: after the constructor and init() *)

\* The configurations the samples construct: agent.js (ONLINE, own
\* conversations) and the reader and the manager (AWAY, all conversations).
Configs == {[initialState |-> "ONLINE", subscribeAllConversations |-> FALSE],
            [initialState |-> "AWAY", subscribeAllConversations |-> TRUE]}

Init ==
    /\ timeouts = {}
    /\ _retryConnection = 0
    /\ intervals = {}
    /\ _pingClock = 0
    /\ myConversations = EmptyTable
    /\ lastChange = [c \in ConvIds \cup InheritedIds |-> "none"]
    /\ subscribed = {}
    /\ \E c \in Configs :
        /\ initialState = c.initialState
        /\ subscribeAllConversations = c.subscribeAllConversations
    /\ pending = EmptyBag
    /\ last = NoEvent
    /\ phase = "init"
    /\ nClosed = 0
    /\ nConnected = 0
    /\ reconnects = 0

\* agent.js: new Bot(agent_config)
InitAgent == Init /\ initialState = "ONLINE" /\ ~subscribeAllConversations

\* manager.js: new Bot(agent_config, 'AWAY', true)
InitManager == Init /\ initialState = "AWAY" /\ subscribeAllConversations

-----------------------------------------------------------------------------
(* Connection lifecycle handlers *)

\* Mutation: the subscription always names the local agent.
ConvSubParams_AlwaysOwn == <<"OPEN", agentId>>

\* convSubParams of the connected handler
ConvSubParams ==
    IF subscribeAllConversations THEN <<"OPEN">> ELSE <<"OPEN", agentId>>

\* this.on('connected', ...)
OnConnected(limit) ==
    /\ Idle
    /\ nConnected < limit
    /\ timeouts' = clearTimeout(timeouts, _retryConnection)
    /\ LET h == FreshHandle(intervals)
       IN  /\ intervals' = intervals \cup {h}
           /\ _pingClock' = h
    /\ last' = [event |-> "connected",
                effects |-> <<Emit(CONNECTED, "", <<>>, <<>>),
                              Call("subscribeAgentsState", "", <<>>, <<>>),
                              Call("setAgentState", "", <<>>, <<initialState>>),
                              Call("subscribeExConversations", "", <<>>, ConvSubParams),
                              Call("subscribeRoutingTasks", "", <<>>, <<>>)>>]
    /\ pending' = InFlight(pending, Callbacks(last'.effects))
    /\ phase' = "connected"
    /\ nConnected' = nConnected + 1
    /\ reconnects' = 0
    /\ subscribed' = {}
    /\ UNCHANGED <<_retryConnection, myConversations, lastChange, cfgVars, nClosed>>

\* this.on('closed', ...)
OnClosed(limit) ==
    /\ Idle
    /\ nClosed < limit
    /\ intervals' = clearInterval(intervals, _pingClock)
    /\ LET r == _reconnect(timeouts, Double(reconnectInterval), 1)
       IN  /\ timeouts' = r.timeouts
           /\ _retryConnection' = r.handle
    /\ last' = [event |-> "closed", effects |-> <<>>]
    /\ phase' = "closed"
    /\ nClosed' = nClosed + 1
    /\ reconnects' = 0
    /\ UNCHANGED <<_pingClock, convVars, cfgVars, pending, nConnected>>

\* The callback of the timeout t set by _reconnect.
RetryFires(t) ==
    /\ Idle
    /\ t \in timeouts
    /\ LET rest == timeouts \ {t}
           next == RetryNext(t.delay, t.attempt)
       IN  IF next = {}
           THEN /\ timeouts' = rest
                /\ UNCHANGED _retryConnection
           ELSE \E n \in next :
                    LET r == _reconnect(rest, n.delay, n.attempt)
                    IN  /\ timeouts' = r.timeouts
                        /\ _retryConnection' = r.handle
    /\ last' = [event |-> "retry",
                timer |-> [delay |-> t.delay, attempt |-> t.attempt],
                effects |-> <<CallNoCallback("reconnect", "", <<>>, <<>>)>>]
    /\ reconnects' = Min(reconnects + 1, ReconnectsCap)
    /\ UNCHANGED <<intervals, _pingClock, convVars, cfgVars, pending, phase,
                   nClosed, nConnected>>

\* The callback of the keep-alive interval h: getClock(this).
PingFires(h) ==
    /\ Idle
    /\ h \in intervals
    /\ last' = [event |-> "ping", effects |-> <<Call("getClock", "", <<>>, <<>>)>>]
    /\ pending' = InFlight(pending, Callbacks(last'.effects))
    /\ UNCHANGED <<connVars, convVars, cfgVars, histVars>>

\* this.on('error', ...)
OnError ==
    /\ Idle
    /\ last' = [event |-> "error", effects |-> <<Emit(ERROR, "", <<>>, <<>>)>>]
    /\ UNCHANGED <<connVars, convVars, cfgVars, pending, histVars>>

\* this.on('notification', ...) for a type that is not in handledMessageTypes
OnUnhandledNotification ==
    /\ Idle
    /\ last' = [event |-> "notification", effects |-> <<>>]
    /\ UNCHANGED <<connVars, convVars, cfgVars, pending, histVars>>

\* The handler has returned; the loop waits for the next event.
TurnEnds ==
    /\ ~Idle
    /\ last' = NoEvent
    /\ UNCHANGED <<connVars, convVars, cfgVars, pending, histVars>>

-----------------------------------------------------------------------------
(* Specifications of the connection lifecycle *)

Next ==
    \/ OnConnected(MaxConnected)
    \/ OnClosed(MaxClosed)
    \/ \E t \in timeouts : RetryFires(t)
    \/ \E h \in intervals : PingFires(h)
    \/ OnError
    \/ OnUnhandledNotification
    \/ TurnEnds

Spec == Init /\ [][Next]_vars

\* The events that start, advance and end a reconnect sequence, and the
\* keep-alive.
NextLive ==
    \/ OnConnected(MaxConnected)
    \/ OnClosed(MaxClosed)
    \/ \E t \in timeouts : RetryFires(t)
    \/ \E h \in intervals : PingFires(h)
    \/ TurnEnds

\* An expired timer is not starved by other events, and a handler returns.
\* The session is the one of agent.js.
LiveSpec ==
    /\ InitAgent
    /\ [][NextLive]_vars
    /\ SF_vars(\E t \in timeouts : RetryFires(t))
    /\ WF_vars(TurnEnds)

\* The same lifecycle when the transport may deliver one more closed and one
\* more connected event.
NextReclose ==
    \/ OnConnected(MaxConnected + 1)
    \/ OnClosed(MaxClosed + 1)
    \/ \E t \in timeouts : RetryFires(t)
    \/ \E h \in intervals : PingFires(h)
    \/ OnError
    \/ OnUnhandledNotification
    \/ TurnEnds

SpecReclose == Init /\ [][NextReclose]_vars

-----------------------------------------------------------------------------
(* Tracked conversations *)

Participant(id, role) == [id |-> id, role |-> role]

\* The participant lists of the conversation details the transport reports:
\* the consumer with the bot as assigned agent, the consumer with the bot as
\* reader, the consumer alone, and the bot with no consumer.
WithAgent == <<Participant("consumer", "CONSUMER"), Participant(agentId, "ASSIGNED_AGENT")>>
WithReader == <<Participant("consumer", "CONSUMER"), Participant(agentId, "READER")>>
ConsumerOnly == <<Participant("consumer", "CONSUMER")>>
NoConsumer == <<Participant(agentId, "ASSIGNED_AGENT")>>

\* The bot listed as a participant with an odd role: the empty text, the
\* text "undefined", and no role at all.
OddRoleLists ==
    {<<Participant("consumer", "CONSUMER"), Participant(agentId, "")>>,
     <<Participant("consumer", "CONSUMER"), Participant(agentId, "undefined")>>,
     <<Participant("consumer", "CONSUMER"), [id |-> agentId]>>}

ParticipantLists == {WithAgent, WithReader, ConsumerOnly, NoConsumer}

Details(participants) == [participants |-> participants]

\* A lastContentEventNotification as the transport reports it.
LastContent ==
    [sequence |-> 1, serverTimestamp |-> 1000, originatorId |-> "consumer",
     originatorPId |-> "consumer",
     originatorMetadata |-> [id |-> "consumer", role |-> "CONSUMER"],
     event |-> [type |-> "ContentEvent", contentType |-> "text/plain", message |-> "a"],
     dialogId |-> "c1"]

Upsert(convId, participants, lastContent) ==
    [type |-> "UPSERT",
     result |-> [convId |-> convId,
                 conversationDetails |-> Some(Details(participants)),
                 lastContentEventNotification |-> lastContent]]

Delete(convId) ==
    [type |-> "DELETE",
     result |-> [convId |-> convId, conversationDetails |-> None,
                 lastContentEventNotification |-> None]]

\* A DELETE record that carries the conversation details: what the result
\* of a DELETE holds besides convId is the transport's choice.
DeleteWith(convId, participants) ==
    [type |-> "DELETE",
     result |-> [convId |-> convId,
                 conversationDetails |-> Some(Details(participants)),
                 lastContentEventNotification |-> None]]

\* _isInMyConversations(conversationId): !!this.myConversations[conversationId];
\* every stored value is an object, {} included, and an object is truthy, and
\* so is an inherited member.
_isInMyConversations(convs, conversationId) == Get(convs, conversationId) # None

\* _addToMyConversations(conversationId)
_addToMyConversations(convs, conversationId) == Put(convs, conversationId, EmptyEntry)

\* The reduced projection _updateMyConversation stores.
ReducedLastContent(n) ==
    [sequence |-> n.sequence,
     serverTimestamp |-> n.serverTimestamp,
     originatorId |-> n.originatorId,
     originatorPId |-> n.originatorPId,
     originatorMetadata |-> [role |-> n.originatorMetadata.role],
     event |-> [type |-> n.event.type]]

\* _updateMyConversation(conversationId, result)
_updateMyConversation(convs, conversationId, result) ==
    LET _oldData == IF Get(convs, conversationId) # None
                    THEN Get(convs, conversationId)[1]
                    ELSE EmptyEntry
        _newData ==
            [convId |-> Some(result.convId),
             conversationDetails |-> result.conversationDetails,
             consumerProfile |-> _oldData.consumerProfile,
             lastContentEventNotification |->
                 IF result.lastContentEventNotification # None
                 THEN Some(ReducedLastContent(result.lastContentEventNotification[1]))
                 ELSE None]
    IN  Put(convs, conversationId, _newData)

\* getConsumerProfile(conversationId, conversationDetails): the id of the
\* first CONSUMER participant is read; with no such participant the read of
\* `.id` of undefined throws a TypeError.  The method returns nothing.
getConsumerProfile(conversationId, conversationDetails) ==
    LET consumers == SelectSeq(conversationDetails.participants,
                               LAMBDA q : "role" \in DOMAIN q /\ q.role = "CONSUMER")
    IN  IF consumers = <<>>
        THEN [threw |-> TRUE, effects |-> <<>>, value |-> None]
        ELSE [threw |-> FALSE,
              effects |-> <<CallWith("getUserProfile", conversationId, <<>>,
                                     <<consumers[1].id>>,
                                     Closure(conversationId, "", None))>>,
              value |-> None]

\* getRole(conversationDetails, pid): participant && participant.role, the
\* role text of the first participant with that id, undefined when there is
\* none or when it has no role.
getRole(conversationDetails, pid) ==
    LET mine == SelectSeq(conversationDetails.participants, LAMBDA q : q.id = pid)
    IN  IF mine = <<>> \/ "role" \notin DOMAIN mine[1] THEN None ELSE Some(mine[1].role)

\* One change record of a cqm.ExConversationChangeNotification, applied to
\* the handler's state so far (the table, the effects, whether it threw).
ConvChange(st, change) ==
    LET convId == change.result.convId
    IN  IF change.type = "UPSERT"
        THEN IF ~_isInMyConversations(st.convs, convId)
             THEN LET added == _addToMyConversations(st.convs, convId)
                      profile == getConsumerProfile(convId,
                                     change.result.conversationDetails[1])
                  IN  IF profile.threw
                      THEN [convs |-> added, effects |-> st.effects, threw |-> TRUE]
                      ELSE [convs |-> _updateMyConversation(
                                         [added EXCEPT ![convId].consumerProfile =
                                                           profile.value],
                                         convId, change.result),
                            effects |-> st.effects \o profile.effects \o
                                        <<Call("subscribeMessagingEvents", convId,
                                               <<>>, <<>>)>>,
                            threw |-> FALSE]
             ELSE [st EXCEPT !.convs =
                                _updateMyConversation(st.convs, convId, change.result)]
        ELSE IF change.type = "DELETE"
        THEN [st EXCEPT !.convs = Remove(st.convs, convId)]
        ELSE st

\* body.changes.forEach(...): the records in order, up to one that throws.
RECURSIVE ConvChanges(_, _, _)
ConvChanges(changes, i, st) ==
    IF i > Len(changes) \/ st.threw
    THEN st
    ELSE ConvChanges(changes, i + 1, ConvChange(st, changes[i]))

\* The latest UPSERT / DELETE record of the batch for each conversation id.
RECURSIVE Delivered(_, _, _)
Delivered(changes, i, seen) ==
    IF i > Len(changes)
    THEN seen
    ELSE Delivered(changes, i + 1,
                   IF changes[i].type \in {"UPSERT", "DELETE"}
                   THEN [seen EXCEPT ![changes[i].result.convId] = changes[i].type]
                   ELSE seen)

\* The conversation ids of the subscribe-messaging-events calls of a handler.
Subscriptions(effects) ==
    {effects[i].conv : i \in {j \in 1..Len(effects) :
                                 effects[j].name = "subscribeMessagingEvents"}}

\* this.on('cqm.ExConversationChangeNotification', ...)
OnConversationChange(body) ==
    /\ Idle
    /\ LET st == ConvChanges(body.changes, 1,
                     [convs |-> myConversations, effects |-> <<>>, threw |-> FALSE])
       IN  /\ myConversations' = st.convs
           /\ last' = [event |-> "conversation",
                       body |-> body,
                       before |-> myConversations,
                       threw |-> st.threw,
                       effects |-> IF st.threw
                                   THEN st.effects
                                   ELSE Append(st.effects,
                                               Emit(CONVERSATION_NOTIFICATION, "",
                                                    <<>>, <<body>>))]
    /\ pending' = InFlight(pending, Callbacks(last'.effects))
    /\ lastChange' = Delivered(body.changes, 1, lastChange)
    /\ subscribed' = subscribed \cup Subscriptions(last'.effects)
    /\ UNCHANGED <<connVars, cfgVars, histVars>>

\* The change records and the notifications the transport delivers.
ConvChangeRecords ==
    {Upsert(c, ps, None) : c \in ConvIds, ps \in ParticipantLists}
    \cup {Upsert(c, WithAgent, Some(LastContent)) : c \in ConvIds}
    \cup {Delete(c) : c \in ConvIds}

ConvBatches ==
    {[changes |-> cs] : cs \in UNION {[1..n -> ConvChangeRecords] : n \in 0..MaxConvBatch}}

\* Notifications about the conversations whose ids are the inherited names
\* ids: single records; the one named "__proto__" comes with a last content
\* event.
InheritedConvBatches(ids) ==
    {[changes |-> <<r>>] :
        r \in {Upsert(c, WithAgent, IF c = "__proto__" THEN Some(LastContent) ELSE None) :
                  c \in ids}
              \cup {Delete(c) : c \in ids}}

\* Of the inherited names this specification reports "constructor" only.
NextConv ==
    \/ Idle /\ \E body \in ConvBatches \cup InheritedConvBatches({"constructor"}) :
                  OnConversationChange(body)
    \/ TurnEnds

SpecConv == Init /\ [][NextConv]_vars

-----------------------------------------------------------------------------
(* Messaging events *)

\* One change of an ms.MessagingEventNotification.
MsgChange(dialogId, sequence, originatorId, role, event) ==
    [dialogId |-> dialogId, sequence |-> sequence, originatorId |-> originatorId,
     originatorMetadata |-> [id |-> originatorId, role |-> role],
     event |-> event]

ContentEvent(message) ==
    [type |-> "ContentEvent", message |-> message, sequenceList |-> <<>>]

AcceptStatusEvent(sequenceList) ==
    [type |-> "AcceptStatusEvent", message |-> "", sequenceList |-> sequenceList]

ChatStateEvent ==
    [type |-> "ChatStateEvent", message |-> "", sequenceList |-> <<>>]

\* `${body.dialogId}-${sequence}`, the key of the respond object
RespondKey(body, sequence) == <<body.dialogId, sequence>>

\* The respond object: its keys in insertion order, as Object.keys gives them.
HasKey(respond, key) == \E i \in 1..Len(respond) : respond[i].key = key

\* Mutation: a key already present keeps its value.
SetKey_KeepFirst(respond, key, value) ==
    IF HasKey(respond, key)
    THEN respond
    ELSE Append(respond, [key |-> key, value |-> value])

\* respond[key] = value: a key already present keeps its place.
SetKey(respond, key, value) ==
    IF HasKey(respond, key)
    THEN [i \in 1..Len(respond) |->
             IF respond[i].key = key THEN [key |-> key, value |-> value] ELSE respond[i]]
    ELSE Append(respond, [key |-> key, value |-> value])

\* delete respond[key]
DeleteKey(respond, key) == SelectSeq(respond, LAMBDA e : e.key # key)

\* change.event.sequenceList.forEach(seq => delete respond[...])
RECURSIVE DeleteKeys(_, _, _, _)
DeleteKeys(respond, body, sequenceList, i) ==
    IF i > Len(sequenceList)
    THEN respond
    ELSE DeleteKeys(DeleteKey(respond, RespondKey(body, sequenceList[i])),
                    body, sequenceList, i + 1)

\* Mutation: the read-receipts are not taken off the list.
RespondStep_KeepRead(convs, body, respond, change) ==
    IF _isInMyConversations(convs, change.dialogId)
       /\ change.event.type = "ContentEvent" /\ change.originatorId # agentId
    THEN SetKey(respond, RespondKey(body, change.sequence),
                [dialogId |-> body.dialogId,
                 sequence |-> change.sequence,
                 message |-> change.event.message,
                 originatorMetadata |-> change.originatorMetadata])
    ELSE respond

\* The body of body.changes.forEach(change => ...) in the messaging handler.
RespondStep(convs, body, respond, change) ==
    IF _isInMyConversations(convs, change.dialogId)
    THEN LET added ==
                 IF change.event.type = "ContentEvent" /\ change.originatorId # agentId
                 THEN SetKey(respond, RespondKey(body, change.sequence),
                             [dialogId |-> body.dialogId,
                              sequence |-> change.sequence,
                              message |-> change.event.message,
                              originatorMetadata |-> change.originatorMetadata])
                 ELSE respond
         IN  IF change.event.type = "AcceptStatusEvent" /\ change.originatorId = agentId
             THEN DeleteKeys(added, body, change.event.sequenceList, 1)
             ELSE added
    ELSE respond

RECURSIVE Respond(_, _, _, _)
Respond(convs, body, i, respond) ==
    IF i > Len(body.changes)
    THEN respond
    ELSE Respond(convs, body, i + 1, RespondStep(convs, body, respond, body.changes[i]))

\* markAsRead(conversationId, sequenceArray)
markAsRead(conversationId, sequenceArray) ==
    Call("publishEvent", conversationId, sequenceArray, <<"AcceptStatusEvent", "READ">>)

\* this.emit(Bot.const.CONTENT_NOTIFICATION, contentEvent)
EmitContent(contentEvent) ==
    Emit(CONTENT_NOTIFICATION, contentEvent.dialogId, <<contentEvent.sequence>>,
         <<contentEvent.message, contentEvent.originatorMetadata.role>>)

\* Mutation: the content notification is emitted before the read-receipt.
RECURSIVE RespondLoop_EmitFirst(_, _, _, _)
RespondLoop_EmitFirst(entry, respond, i, st) ==
    IF i > Len(respond) \/ st.threw
    THEN st
    ELSE IF entry.conversationDetails = None
    THEN [st EXCEPT !.threw = TRUE]
    ELSE LET contentEvent == respond[i].value
             read == IF getRole(entry.conversationDetails[1], agentId) = Some("ASSIGNED_AGENT")
                     THEN <<markAsRead(contentEvent.dialogId, <<contentEvent.sequence>>)>>
                     ELSE <<>>
         IN  RespondLoop_EmitFirst(entry, respond, i + 1,
                 [st EXCEPT !.effects = @ \o <<EmitContent(contentEvent)>> \o read])

\* Object.keys(respond).forEach(key => ...) for a tracked body.dialogId.
\* An entry that is {} has no conversationDetails: getRole reads
\* `.participants` of undefined and throws a TypeError.
RECURSIVE RespondLoop(_, _, _, _)
RespondLoop(entry, respond, i, st) ==
    IF i > Len(respond) \/ st.threw
    THEN st
    ELSE IF entry.conversationDetails = None
    THEN [st EXCEPT !.threw = TRUE]
    ELSE LET contentEvent == respond[i].value
             read == IF getRole(entry.conversationDetails[1], agentId) = Some("ASSIGNED_AGENT")
                     THEN <<markAsRead(contentEvent.dialogId, <<contentEvent.sequence>>)>>
                     ELSE <<>>
         IN  RespondLoop(entry, respond, i + 1,
                         [st EXCEPT !.effects = @ \o read \o <<EmitContent(contentEvent)>>])

\* if (this.myConversations[body.dialogId]) { ... }
MessagingEffects(convs, body, respond) ==
    IF Get(convs, body.dialogId) # None
    THEN RespondLoop(Get(convs, body.dialogId)[1], respond, 1,
                     [effects |-> <<>>, threw |-> FALSE])
    ELSE [effects |-> <<>>, threw |-> FALSE]

\* this.on('ms.MessagingEventNotification', ...)
OnMessagingEvent(body) ==
    /\ Idle
    /\ LET respond == Respond(myConversations, body, 1, <<>>)
           done == MessagingEffects(myConversations, body, respond)
       IN  last' = [event |-> "messaging", body |-> body, threw |-> done.threw,
                    effects |-> done.effects]
    /\ pending' = InFlight(pending, Callbacks(last'.effects))
    /\ UNCHANGED <<connVars, convVars, cfgVars, histVars>>

\* The changes the transport delivers in messaging notifications: content
\* events of the consumer and of the bot itself, read-receipts of the bot and
\* of the consumer, and a chat state, for one conversation id, and a content
\* event for the other.
MsgChanges ==
    {MsgChange("c1", 1, "consumer", "CONSUMER", ContentEvent(m)) : m \in {"a", "b"}}
    \cup {MsgChange("c1", 2, "consumer", "CONSUMER", ContentEvent("a")),
          MsgChange("c1", 1, agentId, "ASSIGNED_AGENT", ContentEvent("a")),
          MsgChange("c1", 3, "consumer", "CONSUMER", AcceptStatusEvent(<<1, 2>>)),
          MsgChange("c1", 3, "consumer", "CONSUMER", ChatStateEvent),
          MsgChange("c2", 1, "consumer", "CONSUMER", ContentEvent("a"))}
    \cup {MsgChange("c1", 3, agentId, "ASSIGNED_AGENT", AcceptStatusEvent(l)) :
             l \in {<<1>>, <<1, 2>>}}

MsgBatches ==
    {[dialogId |-> d, changes |-> cs] :
        d \in ConvIds,
        cs \in UNION {[1..n -> MsgChanges] : n \in 0..MaxMsgBatch}}

\* The conversation changes of the messaging specification: single records
\* about one conversation; the other id is never reported.
MsgSpecConvBatches ==
    {[changes |-> <<r>>] :
        r \in {Upsert("c1", ps, None) : ps \in {WithAgent, WithReader, NoConsumer}}
              \cup {Delete("c1")}}

\* Messaging notifications in which the dialogId of the notification or of
\* a change is an inherited name.
InheritedMsgBatches ==
    {[dialogId |-> d, changes |-> <<MsgChange(c, 1, "consumer", "CONSUMER", ContentEvent("a"))>>] :
        d \in InheritedIds \cup {"c1"}, c \in InheritedIds \cup {"c1"}}
    \cup {[dialogId |-> "c1",
           changes |-> <<MsgChange(c, 1, "consumer", "CONSUMER", ContentEvent("a")),
                         MsgChange("c1", 2, "consumer", "CONSUMER", ContentEvent("a"))>>] :
             c \in InheritedIds}

\* Of the conversations with inherited names this specification is told of
\* the UPSERT of "__proto__" only.
NextMsg ==
    \/ Idle /\ \E body \in MsgSpecConvBatches
                           \cup {b \in InheritedConvBatches({"__proto__"}) :
                                    b.changes[1].type = "UPSERT"} :
                  OnConversationChange(body)
    \/ Idle /\ \E body \in MsgBatches \cup InheritedMsgBatches : OnMessagingEvent(body)
    \/ TurnEnds

SpecMsg == Init /\ [][NextMsg]_vars

\* A session about conversations whose ids are inherited names, next to one
\* conversation with an ordinary id; one notification reports the new
\* conversation c2 without a consumer and then the end of c1.
NextInherited ==
    \/ Idle /\ \E body \in MsgSpecConvBatches \cup InheritedConvBatches(InheritedIds)
                           \cup {[changes |-> <<Upsert("c2", NoConsumer, None), Delete("c1")>>]} :
                  OnConversationChange(body)
    \/ Idle /\ \E body \in InheritedMsgBatches : OnMessagingEvent(body)
    \/ TurnEnds

SpecInherited == Init /\ [][NextInherited]_vars

\* A session that loses its socket and connects again while it tracks
\* conversations; notifications arrive while the socket is connected.
NextSession ==
    \/ OnConnected(MaxConnected + 1)
    \/ OnClosed(MaxClosed)
    \/ \E t \in timeouts : RetryFires(t)
    \/ \E h \in intervals : PingFires(h)
    \/ /\ Idle /\ phase = "connected"
       /\ \E body \in MsgSpecConvBatches : OnConversationChange(body)
    \/ TurnEnds

SpecSession == Init /\ [][NextSession]_vars

-----------------------------------------------------------------------------
(* Routing and agent-state notifications *)

Ring(ringId, ringState) == [ringId |-> ringId, ringState |-> ringState]

\* The ringsDetails lists the transport reports.
RingLists ==
    {<<>>,
     <<Ring("r1", "WAITING")>>,
     <<Ring("r2", "ACCEPTED")>>,
     <<Ring("r1", "WAITING"), Ring("r2", "ACCEPTED")>>,
     <<Ring("r1", "WAITING"), Ring("r3", "WAITING")>>,
     <<Ring("r2", "ACCEPTED"), Ring("r3", "EXPIRED")>>}

RoutingChange(type, conversationId, ringsDetails) ==
    [type |-> type,
     result |-> [conversationId |-> conversationId, ringsDetails |-> ringsDetails]]

RoutingChanges ==
    {RoutingChange(ty, "c1", rs) : ty \in {"UPSERT", "DELETE"}, rs \in RingLists}

RoutingBatches ==
    {[changes |-> cs] : cs \in UNION {[1..n -> RoutingChanges] : n \in 0..MaxRoutingBatch}}

\* The routing notifications of the specification of the calls: an empty
\* one, one with a waiting and an accepted ring, one of a removed task.
SomeRoutingBatches ==
    {[changes |-> <<>>],
     [changes |-> <<RoutingChange("UPSERT", "c1",
                                  <<Ring("r1", "WAITING"), Ring("r2", "ACCEPTED")>>)>>],
     [changes |-> <<RoutingChange("DELETE", "c1", <<Ring("r1", "WAITING")>>)>>]}

\* The agent-state notifications the transport delivers.
AgentStateBatches ==
    {[changes |-> <<>>],
     [changes |-> <<[type |-> "UPSERT", result |-> [agentState |-> "ONLINE"]]>>]}

\* Mutation: the routing handler re-emits the notification without its changes.
OnRoutingNotification_DropsChanges(body) ==
    /\ Idle
    /\ last' = [event |-> "routing", body |-> body,
                effects |-> <<Emit(ROUTING_NOTIFICATION, "", <<>>,
                                   <<[changes |-> <<>>]>>)>>]
    /\ UNCHANGED <<connVars, convVars, cfgVars, pending, histVars>>

\* this.on('routing.RoutingTaskNotification', ...) with a listener that logs
OnRoutingNotification(body) ==
    /\ Idle
    /\ last' = [event |-> "routing", body |-> body,
                effects |-> <<Emit(ROUTING_NOTIFICATION, "", <<>>, <<body>>)>>]
    /\ UNCHANGED <<connVars, convVars, cfgVars, pending, histVars>>

\* this.on('routing.AgentStateNotification', ...) with a listener that logs
OnAgentStateNotification(body) ==
    /\ Idle
    /\ last' = [event |-> "agentState", body |-> body,
                effects |-> <<Emit(AGENT_STATE_NOTIFICATION, "", <<>>, <<body>>)>>]
    /\ UNCHANGED <<connVars, convVars, cfgVars, pending, histVars>>

-----------------------------------------------------------------------------
(* Operations of the Bot class *)

\* Mutation: rings are accepted whatever the type of their change.
AcceptChange_AnyType(change) ==
    LET rings == change.result.ringsDetails
        waiting == SelectSeq(rings, LAMBDA ring : ring.ringState = "WAITING")
    IN  [j \in 1..Len(waiting) |->
            CallWith("updateRingState", change.result.conversationId, <<>>,
                     <<waiting[j].ringId, "ACCEPTED">>,
                     Closure(change.result.conversationId, "", None))]

\* The body of data.changes.forEach(change => ...) in
\* acceptWaitingConversations: one updateRingState call for each WAITING ring
\* of an UPSERT change, in the order of the rings.
AcceptChange(change) ==
    IF change.type = "UPSERT"
    THEN LET rings == change.result.ringsDetails
             waiting == SelectSeq(rings, LAMBDA ring : ring.ringState = "WAITING")
         IN  [j \in 1..Len(waiting) |->
                 CallWith("updateRingState", change.result.conversationId, <<>>,
                          <<waiting[j].ringId, "ACCEPTED">>,
                          Closure(change.result.conversationId, "", None))]
    ELSE <<>>

\* acceptWaitingConversations(data): the calls it issues, for changes[i..]
RECURSIVE acceptWaitingConversations(_, _)
acceptWaitingConversations(data, i) ==
    IF i > Len(data.changes)
    THEN <<>>
    ELSE AcceptChange(data.changes[i]) \o acceptWaitingConversations(data, i + 1)

\* /^(READER|MANAGER|ASSIGNED_AGENT)$/
JoinRoles == {"READER", "MANAGER", "ASSIGNED_AGENT"}

\* Mutation: the role is not tested.
joinConversation_AnyRole(conversationId, role, announce) ==
    [value |-> None,
     effects |-> <<CallWith("updateConversationField", conversationId, <<>>,
                            <<"ParticipantsChange", "ADD", role>>,
                            Closure(conversationId, role, announce))>>]

\* joinConversation(conversationId, role, announce): the value returned
\* (false, or nothing) and the call issued.
joinConversation(conversationId, role, announce) ==
    IF role \notin JoinRoles
    THEN [value |-> Some(FALSE), effects |-> <<>>]
    ELSE [value |-> None,
          effects |-> <<CallWith("updateConversationField", conversationId, <<>>,
                                 <<"ParticipantsChange", "ADD", role>>,
                                 Closure(conversationId, role, announce))>>]

\* A value used as a condition: undefined and false are falsy.
Truthy(option) == option = Some(TRUE)

\* The text event joinConversation publishes; publishEvent is given no callback.
JoinedText(conversationId, role) ==
    CallNoCallback("publishEvent", conversationId, <<>>,
                   <<"ContentEvent", "text/plain", role \o " joined">>)

\* Mutation: the join callback does not look at the error.
CompletionEffects_IgnoreError(cb, e) ==
    IF /\ cb.name = "updateConversationField"
       /\ Truthy(cb.closure.announce)
       /\ cb.closure.role # "READER"
    THEN <<JoinedText(cb.closure.conv, cb.closure.role)>>
    ELSE <<>>

\* Mutation: the join callback announces a reader too.
CompletionEffects_ReaderAnnounces(cb, e) ==
    IF /\ cb.name = "updateConversationField"
       /\ ~e
       /\ Truthy(cb.closure.announce)
    THEN <<JoinedText(cb.closure.conv, cb.closure.role)>>
    ELSE <<>>

\* What the completion callback cb does when the transport calls it with the
\* error e (or with a response).  Every callback logs; the one of
\* joinConversation also announces the join.
CompletionEffects(cb, e) ==
    IF /\ cb.name = "updateConversationField"
       /\ ~e
       /\ Truthy(cb.closure.announce)
       /\ cb.closure.role # "READER"
    THEN <<JoinedText(cb.closure.conv, cb.closure.role)>>
    ELSE <<>>

\* The transport completes a call in flight: (e, resp) => ...
Complete(cb, e) ==
    /\ Idle
    /\ BagIn(cb, pending)
    /\ last' = [event |-> "completion", call |-> cb, error |-> e,
                effects |-> CompletionEffects(cb, e)]
    /\ \E rest \in AfterCompletion(pending, cb) :
          pending' = InFlight(rest, Callbacks(last'.effects))
    /\ UNCHANGED <<connVars, convVars, cfgVars, histVars>>

\* The application calls bot.joinConversation(conversationId, role, announce).
CallJoinConversation(conversationId, role, announce) ==
    /\ Idle
    /\ LET r == joinConversation(conversationId, role, announce)
       IN  last' = [event |-> "joinConversation",
                    args |-> Closure(conversationId, role, announce),
                    value |-> r.value, effects |-> r.effects]
    /\ pending' = InFlight(pending, Callbacks(last'.effects))
    /\ UNCHANGED <<connVars, convVars, cfgVars, histVars>>

\* removeParticipant(conversationId, role)
removeParticipant(conversationId, role) ==
    Call("updateConversationField", conversationId, <<>>,
         <<"ParticipantsChange", "REMOVE", role>>)

\* The application calls bot.removeParticipant(conversationId, role).
CallRemoveParticipant(conversationId, role) ==
    /\ Idle
    /\ last' = [event |-> "removeParticipant",
                args |-> Closure(conversationId, role, None),
                effects |-> <<removeParticipant(conversationId, role)>>]
    /\ pending' = InFlight(pending, Callbacks(last'.effects))
    /\ UNCHANGED <<connVars, convVars, cfgVars, histVars>>

\* The application calls bot.acceptWaitingConversations(data).
CallAcceptWaitingConversations(data) ==
    /\ Idle
    /\ last' = [event |-> "acceptWaitingConversations", body |-> data,
                effects |-> acceptWaitingConversations(data, 1)]
    /\ pending' = InFlight(pending, Callbacks(last'.effects))
    /\ UNCHANGED <<connVars, convVars, cfgVars, histVars>>

\* The roles and the announce arguments applications pass to joinConversation.
JoinRoleInputs == JoinRoles \cup {"HACKER", "reader"}
AnnounceInputs == {None, Some(TRUE), Some(FALSE)}

\* The pairs of them the model passes: every role with announce set, and the
\* manager and the reader with every announce argument.
JoinInputs ==
    (JoinRoleInputs \X {Some(TRUE)}) \cup ({"MANAGER", "READER"} \X AnnounceInputs)

NextApi ==
    \/ \E in \in JoinInputs : CallJoinConversation("c1", in[1], in[2])
    \/ \E role \in {"MANAGER", "HACKER"} : CallRemoveParticipant("c1", role)
    \/ \E cb \in BagToSet(pending), e \in BOOLEAN : Complete(cb, e)
    \/ TurnEnds

SpecApi == Init /\ [][NextApi]_vars

\* A messaging notification with one message of the consumer.
OneMessageBatches ==
    {[dialogId |-> "c1",
      changes |-> <<MsgChange("c1", 1, "consumer", "CONSUMER", ContentEvent("a"))>>]}

\* The transport and the application of this session hand the bot a new
\* event only while fewer than MaxBacklog callbacks are in flight.
Paced == BagCardinality(pending) < MaxBacklog

\* A session that issues every kind of transport call, and their completions.
NextCalls ==
    \/ Paced /\ OnConnected(MaxConnected)
    \/ Paced /\ \E h \in intervals : PingFires(h)
    \/ Paced /\ OnError
    \/ Paced /\ OnUnhandledNotification
    \/ Paced /\ Idle /\ \E body \in SomeRoutingBatches : OnRoutingNotification(body)
    \/ Paced /\ Idle /\ \E body \in AgentStateBatches : OnAgentStateNotification(body)
    \/ Paced /\ Idle /\ \E body \in MsgSpecConvBatches : OnConversationChange(body)
    \/ Paced /\ Idle /\ \E body \in OneMessageBatches : OnMessagingEvent(body)
    \/ Paced /\ CallJoinConversation("c1", "MANAGER", Some(TRUE))
    \/ Paced /\ Idle /\ \E data \in SomeRoutingBatches : CallAcceptWaitingConversations(data)
    \/ \E cb \in BagToSet(pending), e \in BOOLEAN : Complete(cb, e)
    \/ TurnEnds

SpecCalls == Init /\ [][NextCalls]_vars

-----------------------------------------------------------------------------
(* The sample programs *)

\* agent.js, agent.on(Bot.const.ROUTING_NOTIFICATION, ...): the routing
\* handler's emit runs the listener, which accepts the waiting rings.
AgentOnRoutingNotification(body) ==
    /\ Idle
    /\ last' = [event |-> "routing", body |-> body,
                effects |-> <<Emit(ROUTING_NOTIFICATION, "", <<>>, <<body>>)>>
                            \o acceptWaitingConversations(body, 1)]
    /\ pending' = InFlight(pending, Callbacks(last'.effects))
    /\ UNCHANGED <<connVars, convVars, cfgVars, histVars>>

\* const transferSkill
transferSkill == "277498214"

\* sendText(conversationId, message)
sendText(conversationId, message) ==
    Call("publishEvent", conversationId, <<>>, <<"ContentEvent", "text/plain", message>>)

\* sendRichContent(conversationId, card): the card stands for its content
\* and its id, a random number.
sendRichContent(conversationId, card) ==
    Call("publishEvent", conversationId, <<>>, <<"RichContentEvent", card>>)

\* transferConversation(conversationId, targetSkillId)
transferConversation(conversationId, targetSkillId) ==
    Call("updateConversationField", conversationId, <<>>,
         <<"ParticipantsChange", "REMOVE", "ASSIGNED_AGENT", "Skill", "UPDATE", targetSkillId>>)

\* closeConversation(conversationId)
closeConversation(conversationId) ==
    Call("updateConversationField", conversationId, <<>>,
         <<"ConversationStateField", "CLOSE">>)

\* agent.setAgentState({availability: state}, () => {})
setAgentState(availability) == Call("setAgentState", "", <<>>, <<availability>>)

\* A text is the sequence of its UTF-16 code units, as a string of the
\* program is.

\* The character data String.prototype.toLowerCase works with, each as a list
\* in increasing order of code points.  They are the data of Unicode 17.0,
\* which node 20 with ICU 78 carries; a runtime with the data of another
\* version differs on the code points that changed between the two.
\*   lower: <<first, last, step, d>> says that the code points first,
\*     first + step, ..., last have the lower-case code point d further on;
\*     U+0130 has the two-character mapping U+0069 U+0307 and U+03A3 has the
\*     mappings U+03C3 and, at the end of a word, U+03C2; every other code
\*     point is its own lower case;
\*   cased, caseIgnorable: <<first, last>> says that the code points first
\*     to last have the property, by which the end of a word is told.
UnicodeData ==
    [lower |->
     <<
      <<65, 90, 1, 32>>, <<192, 214, 1, 32>>, <<216, 222, 1, 32>>, <<256, 302, 2, 1>>,
      <<306, 310, 2, 1>>, <<313, 327, 2, 1>>, <<330, 374, 2, 1>>, <<376, 376, 1, -121>>,
      <<377, 381, 2, 1>>, <<385, 385, 1, 210>>, <<386, 388, 2, 1>>, <<390, 390, 1, 206>>,
      <<391, 391, 1, 1>>, <<393, 394, 1, 205>>, <<395, 395, 1, 1>>, <<398, 398, 1, 79>>,
      <<399, 399, 1, 202>>, <<400, 400, 1, 203>>, <<401, 401, 1, 1>>, <<403, 403, 1, 205>>,
      <<404, 404, 1, 207>>, <<406, 406, 1, 211>>, <<407, 407, 1, 209>>, <<408, 408, 1, 1>>,
      <<412, 412, 1, 211>>, <<413, 413, 1, 213>>, <<415, 415, 1, 214>>, <<416, 420, 2, 1>>,
      <<422, 422, 1, 218>>, <<423, 423, 1, 1>>, <<425, 425, 1, 218>>, <<428, 428, 1, 1>>,
      <<430, 430, 1, 218>>, <<431, 431, 1, 1>>, <<433, 434, 1, 217>>, <<435, 437, 2, 1>>,
      <<439, 439, 1, 219>>, <<440, 440, 1, 1>>, <<444, 444, 1, 1>>, <<452, 452, 1, 2>>,
      <<453, 453, 1, 1>>, <<455, 455, 1, 2>>, <<456, 456, 1, 1>>, <<458, 458, 1, 2>>, <<459,
      475, 2, 1>>, <<478, 494, 2, 1>>, <<497, 497, 1, 2>>, <<498, 500, 2, 1>>, <<502, 502,
      1, -97>>, <<503, 503, 1, -56>>, <<504, 542, 2, 1>>, <<544, 544, 1, -130>>, <<546, 562,
      2, 1>>, <<570, 570, 1, 10795>>, <<571, 571, 1, 1>>, <<573, 573, 1, -163>>, <<574, 574,
      1, 10792>>, <<577, 577, 1, 1>>, <<579, 579, 1, -195>>, <<580, 580, 1, 69>>, <<581,
      581, 1, 71>>, <<582, 590, 2, 1>>, <<880, 882, 2, 1>>, <<886, 886, 1, 1>>, <<895, 895,
      1, 116>>, <<902, 902, 1, 38>>, <<904, 906, 1, 37>>, <<908, 908, 1, 64>>, <<910, 911,
      1, 63>>, <<913, 929, 1, 32>>, <<932, 939, 1, 32>>, <<975, 975, 1, 8>>, <<984, 1006, 2,
      1>>, <<1012, 1012, 1, -60>>, <<1015, 1015, 1, 1>>, <<1017, 1017, 1, -7>>, <<1018,
      1018, 1, 1>>, <<1021, 1023, 1, -130>>, <<1024, 1039, 1, 80>>, <<1040, 1071, 1, 32>>,
      <<1120, 1152, 2, 1>>, <<1162, 1214, 2, 1>>, <<1216, 1216, 1, 15>>, <<1217, 1229, 2,
      1>>, <<1232, 1326, 2, 1>>, <<1329, 1366, 1, 48>>, <<4256, 4293, 1, 7264>>, <<4295,
      4295, 1, 7264>>, <<4301, 4301, 1, 7264>>, <<5024, 5103, 1, 38864>>, <<5104, 5109, 1,
      8>>, <<7305, 7305, 1, 1>>, <<7312, 7354, 1, -3008>>, <<7357, 7359, 1, -3008>>, <<7680,
      7828, 2, 1>>, <<7838, 7838, 1, -7615>>, <<7840, 7934, 2, 1>>, <<7944, 7951, 1, -8>>,
      <<7960, 7965, 1, -8>>, <<7976, 7983, 1, -8>>, <<7992, 7999, 1, -8>>, <<8008, 8013, 1,
      -8>>, <<8025, 8031, 2, -8>>, <<8040, 8047, 1, -8>>, <<8072, 8079, 1, -8>>, <<8088,
      8095, 1, -8>>, <<8104, 8111, 1, -8>>, <<8120, 8121, 1, -8>>, <<8122, 8123, 1, -74>>,
      <<8124, 8124, 1, -9>>, <<8136, 8139, 1, -86>>, <<8140, 8140, 1, -9>>, <<8152, 8153, 1,
      -8>>, <<8154, 8155, 1, -100>>, <<8168, 8169, 1, -8>>, <<8170, 8171, 1, -112>>, <<8172,
      8172, 1, -7>>, <<8184, 8185, 1, -128>>, <<8186, 8187, 1, -126>>, <<8188, 8188, 1,
      -9>>, <<8486, 8486, 1, -7517>>, <<8490, 8490, 1, -8383>>, <<8491, 8491, 1, -8262>>,
      <<8498, 8498, 1, 28>>, <<8544, 8559, 1, 16>>, <<8579, 8579, 1, 1>>, <<9398, 9423, 1,
      26>>, <<11264, 11311, 1, 48>>, <<11360, 11360, 1, 1>>, <<11362, 11362, 1, -10743>>,
      <<11363, 11363, 1, -3814>>, <<11364, 11364, 1, -10727>>, <<11367, 11371, 2, 1>>,
      <<11373, 11373, 1, -10780>>, <<11374, 11374, 1, -10749>>, <<11375, 11375, 1, -10783>>,
      <<11376, 11376, 1, -10782>>, <<11378, 11378, 1, 1>>, <<11381, 11381, 1, 1>>, <<11390,
      11391, 1, -10815>>, <<11392, 11490, 2, 1>>, <<11499, 11501, 2, 1>>, <<11506, 11506, 1,
      1>>, <<42560, 42604, 2, 1>>, <<42624, 42650, 2, 1>>, <<42786, 42798, 2, 1>>, <<42802,
      42862, 2, 1>>, <<42873, 42875, 2, 1>>, <<42877, 42877, 1, -35332>>, <<42878, 42886, 2,
      1>>, <<42891, 42891, 1, 1>>, <<42893, 42893, 1, -42280>>, <<42896, 42898, 2, 1>>,
      <<42902, 42920, 2, 1>>, <<42922, 42922, 1, -42308>>, <<42923, 42923, 1, -42319>>,
      <<42924, 42924, 1, -42315>>, <<42925, 42925, 1, -42305>>, <<42926, 42926, 1, -42308>>,
      <<42928, 42928, 1, -42258>>, <<42929, 42929, 1, -42282>>, <<42930, 42930, 1, -42261>>,
      <<42931, 42931, 1, 928>>, <<42932, 42946, 2, 1>>, <<42948, 42948, 1, -48>>, <<42949,
      42949, 1, -42307>>, <<42950, 42950, 1, -35384>>, <<42951, 42953, 2, 1>>, <<42955,
      42955, 1, -42343>>, <<42956, 42970, 2, 1>>, <<42972, 42972, 1, -42561>>, <<42997,
      42997, 1, 1>>, <<65313, 65338, 1, 32>>, <<66560, 66599, 1, 40>>, <<66736, 66771, 1,
      40>>, <<66928, 66938, 1, 39>>, <<66940, 66954, 1, 39>>, <<66956, 66962, 1, 39>>,
      <<66964, 66965, 1, 39>>, <<68736, 68786, 1, 64>>, <<68944, 68965, 1, 32>>, <<71840,
      71871, 1, 32>>, <<93760, 93791, 1, 32>>, <<93856, 93880, 1, 27>>, <<125184, 125217, 1,
      34>>
     >>,
     cased |->
     <<
      <<65, 90>>, <<97, 122>>, <<170, 170>>, <<181, 181>>, <<186, 186>>, <<192, 214>>,
      <<216, 246>>, <<248, 442>>, <<444, 447>>, <<452, 659>>, <<662, 696>>, <<704, 705>>,
      <<736, 740>>, <<837, 837>>, <<880, 883>>, <<886, 887>>, <<890, 893>>, <<895, 895>>,
      <<902, 902>>, <<904, 906>>, <<908, 908>>, <<910, 929>>, <<931, 1013>>, <<1015, 1153>>,
      <<1162, 1327>>, <<1329, 1366>>, <<1376, 1416>>, <<4256, 4293>>, <<4295, 4295>>,
      <<4301, 4301>>, <<4304, 4346>>, <<4348, 4351>>, <<5024, 5109>>, <<5112, 5117>>,
      <<7296, 7306>>, <<7312, 7354>>, <<7357, 7359>>, <<7424, 7615>>, <<7680, 7957>>,
      <<7960, 7965>>, <<7968, 8005>>, <<8008, 8013>>, <<8016, 8023>>, <<8025, 8025>>,
      <<8027, 8027>>, <<8029, 8029>>, <<8031, 8061>>, <<8064, 8116>>, <<8118, 8124>>,
      <<8126, 8126>>, <<8130, 8132>>, <<8134, 8140>>, <<8144, 8147>>, <<8150, 8155>>,
      <<8160, 8172>>, <<8178, 8180>>, <<8182, 8188>>, <<8305, 8305>>, <<8319, 8319>>,
      <<8336, 8348>>, <<8450, 8450>>, <<8455, 8455>>, <<8458, 8467>>, <<8469, 8469>>,
      <<8473, 8477>>, <<8484, 8484>>, <<8486, 8486>>, <<8488, 8488>>, <<8490, 8493>>,
      <<8495, 8500>>, <<8505, 8505>>, <<8508, 8511>>, <<8517, 8521>>, <<8526, 8526>>,
      <<8544, 8575>>, <<8579, 8580>>, <<9398, 9449>>, <<11264, 11492>>, <<11499, 11502>>,
      <<11506, 11507>>, <<11520, 11557>>, <<11559, 11559>>, <<11565, 11565>>, <<42560,
      42605>>, <<42624, 42653>>, <<42786, 42887>>, <<42891, 42894>>, <<42896, 42972>>,
      <<42993, 42998>>, <<43000, 43002>>, <<43824, 43866>>, <<43868, 43881>>, <<43888,
      43967>>, <<64256, 64262>>, <<64275, 64279>>, <<65313, 65338>>, <<65345, 65370>>,
      <<66560, 66639>>, <<66736, 66771>>, <<66776, 66811>>, <<66928, 66938>>, <<66940,
      66954>>, <<66956, 66962>>, <<66964, 66965>>, <<66967, 66977>>, <<66979, 66993>>,
      <<66995, 67001>>, <<67003, 67004>>, <<67456, 67456>>, <<67459, 67461>>, <<67463,
      67504>>, <<67506, 67514>>, <<68736, 68786>>, <<68800, 68850>>, <<68944, 68965>>,
      <<68976, 68997>>, <<71840, 71903>>, <<93760, 93823>>, <<93856, 93880>>, <<93883,
      93907>>, <<119808, 119892>>, <<119894, 119964>>, <<119966, 119967>>, <<119970,
      119970>>, <<119973, 119974>>, <<119977, 119980>>, <<119982, 119993>>, <<119995,
      119995>>, <<119997, 120003>>, <<120005, 120069>>, <<120071, 120074>>, <<120077,
      120084>>, <<120086, 120092>>, <<120094, 120121>>, <<120123, 120126>>, <<120128,
      120132>>, <<120134, 120134>>, <<120138, 120144>>, <<120146, 120485>>, <<120488,
      120512>>, <<120514, 120538>>, <<120540, 120570>>, <<120572, 120596>>, <<120598,
      120628>>, <<120630, 120654>>, <<120656, 120686>>, <<120688, 120712>>, <<120714,
      120744>>, <<120746, 120770>>, <<120772, 120779>>, <<122624, 122633>>, <<122635,
      122654>>, <<122661, 122666>>, <<122928, 122989>>, <<125184, 125251>>, <<127280,
      127305>>, <<127312, 127337>>, <<127344, 127369>>
     >>,
     caseIgnorable |->
     <<
      <<39, 39>>, <<46, 46>>, <<58, 58>>, <<94, 94>>, <<96, 96>>, <<168, 168>>, <<173,
      173>>, <<175, 175>>, <<180, 180>>, <<183, 184>>, <<688, 879>>, <<884, 885>>, <<890,
      890>>, <<900, 901>>, <<903, 903>>, <<1155, 1161>>, <<1369, 1369>>, <<1375, 1375>>,
      <<1425, 1469>>, <<1471, 1471>>, <<1473, 1474>>, <<1476, 1477>>, <<1479, 1479>>,
      <<1524, 1524>>, <<1536, 1541>>, <<1552, 1562>>, <<1564, 1564>>, <<1600, 1600>>,
      <<1611, 1631>>, <<1648, 1648>>, <<1750, 1757>>, <<1759, 1768>>, <<1770, 1773>>,
      <<1807, 1807>>, <<1809, 1809>>, <<1840, 1866>>, <<1958, 1968>>, <<2027, 2037>>,
      <<2042, 2042>>, <<2045, 2045>>, <<2070, 2093>>, <<2137, 2139>>, <<2184, 2184>>,
      <<2192, 2193>>, <<2199, 2207>>, <<2249, 2306>>, <<2362, 2362>>, <<2364, 2364>>,
      <<2369, 2376>>, <<2381, 2381>>, <<2385, 2391>>, <<2402, 2403>>, <<2417, 2417>>,
      <<2433, 2433>>, <<2492, 2492>>, <<2497, 2500>>, <<2509, 2509>>, <<2530, 2531>>,
      <<2558, 2558>>, <<2561, 2562>>, <<2620, 2620>>, <<2625, 2626>>, <<2631, 2632>>,
      <<2635, 2637>>, <<2641, 2641>>, <<2672, 2673>>, <<2677, 2677>>, <<2689, 2690>>,
      <<2748, 2748>>, <<2753, 2757>>, <<2759, 2760>>, <<2765, 2765>>, <<2786, 2787>>,
      <<2810, 2815>>, <<2817, 2817>>, <<2876, 2876>>, <<2879, 2879>>, <<2881, 2884>>,
      <<2893, 2893>>, <<2901, 2902>>, <<2914, 2915>>, <<2946, 2946>>, <<3008, 3008>>,
      <<3021, 3021>>, <<3072, 3072>>, <<3076, 3076>>, <<3132, 3132>>, <<3134, 3136>>,
      <<3142, 3144>>, <<3146, 3149>>, <<3157, 3158>>, <<3170, 3171>>, <<3201, 3201>>,
      <<3260, 3260>>, <<3263, 3263>>, <<3270, 3270>>, <<3276, 3277>>, <<3298, 3299>>,
      <<3328, 3329>>, <<3387, 3388>>, <<3393, 3396>>, <<3405, 3405>>, <<3426, 3427>>,
      <<3457, 3457>>, <<3530, 3530>>, <<3538, 3540>>, <<3542, 3542>>, <<3633, 3633>>,
      <<3636, 3642>>, <<3654, 3662>>, <<3761, 3761>>, <<3764, 3772>>, <<3782, 3782>>,
      <<3784, 3790>>, <<3864, 3865>>, <<3893, 3893>>, <<3895, 3895>>, <<3897, 3897>>,
      <<3953, 3966>>, <<3968, 3972>>, <<3974, 3975>>, <<3981, 3991>>, <<3993, 4028>>,
      <<4038, 4038>>, <<4141, 4144>>, <<4146, 4151>>, <<4153, 4154>>, <<4157, 4158>>,
      <<4184, 4185>>, <<4190, 4192>>, <<4209, 4212>>, <<4226, 4226>>, <<4229, 4230>>,
      <<4237, 4237>>, <<4253, 4253>>, <<4348, 4348>>, <<4957, 4959>>, <<5906, 5908>>,
      <<5938, 5939>>, <<5970, 5971>>, <<6002, 6003>>, <<6068, 6069>>, <<6071, 6077>>,
      <<6086, 6086>>, <<6089, 6099>>, <<6103, 6103>>, <<6109, 6109>>, <<6155, 6159>>,
      <<6211, 6211>>, <<6277, 6278>>, <<6313, 6313>>, <<6432, 6434>>, <<6439, 6440>>,
      <<6450, 6450>>, <<6457, 6459>>, <<6679, 6680>>, <<6683, 6683>>, <<6742, 6742>>,
      <<6744, 6750>>, <<6752, 6752>>, <<6754, 6754>>, <<6757, 6764>>, <<6771, 6780>>,
      <<6783, 6783>>, <<6823, 6823>>, <<6832, 6877>>, <<6880, 6891>>, <<6912, 6915>>,
      <<6964, 6964>>, <<6966, 6970>>, <<6972, 6972>>, <<6978, 6978>>, <<7019, 7027>>,
      <<7040, 7041>>, <<7074, 7077>>, <<7080, 7081>>, <<7083, 7085>>, <<7142, 7142>>,
      <<7144, 7145>>, <<7149, 7149>>, <<7151, 7153>>, <<7212, 7219>>, <<7222, 7223>>,
      <<7288, 7293>>, <<7376, 7378>>, <<7380, 7392>>, <<7394, 7400>>, <<7405, 7405>>,
      <<7412, 7412>>, <<7416, 7417>>, <<7468, 7530>>, <<7544, 7544>>, <<7579, 7679>>,
      <<8125, 8125>>, <<8127, 8129>>, <<8141, 8143>>, <<8157, 8159>>, <<8173, 8175>>,
      <<8189, 8190>>, <<8203, 8207>>, <<8216, 8217>>, <<8228, 8228>>, <<8231, 8231>>,
      <<8234, 8238>>, <<8288, 8292>>, <<8294, 8303>>, <<8305, 8305>>, <<8319, 8319>>,
      <<8336, 8348>>, <<8400, 8432>>, <<11388, 11389>>, <<11503, 11505>>, <<11631, 11631>>,
      <<11647, 11647>>, <<11744, 11775>>, <<11823, 11823>>, <<12293, 12293>>, <<12330,
      12333>>, <<12337, 12341>>, <<12347, 12347>>, <<12441, 12446>>, <<12540, 12542>>,
      <<40981, 40981>>, <<42232, 42237>>, <<42508, 42508>>, <<42607, 42610>>, <<42612,
      42621>>, <<42623, 42623>>, <<42652, 42655>>, <<42736, 42737>>, <<42752, 42785>>,
      <<42864, 42864>>, <<42888, 42890>>, <<42993, 42996>>, <<43000, 43001>>, <<43010,
      43010>>, <<43014, 43014>>, <<43019, 43019>>, <<43045, 43046>>, <<43052, 43052>>,
      <<43204, 43205>>, <<43232, 43249>>, <<43263, 43263>>, <<43302, 43309>>, <<43335,
      43345>>, <<43392, 43394>>, <<43443, 43443>>, <<43446, 43449>>, <<43452, 43453>>,
      <<43471, 43471>>, <<43493, 43494>>, <<43561, 43566>>, <<43569, 43570>>, <<43573,
      43574>>, <<43587, 43587>>, <<43596, 43596>>, <<43632, 43632>>, <<43644, 43644>>,
      <<43696, 43696>>, <<43698, 43700>>, <<43703, 43704>>, <<43710, 43711>>, <<43713,
      43713>>, <<43741, 43741>>, <<43756, 43757>>, <<43763, 43764>>, <<43766, 43766>>,
      <<43867, 43871>>, <<43881, 43883>>, <<44005, 44005>>, <<44008, 44008>>, <<44013,
      44013>>, <<64286, 64286>>, <<64434, 64450>>, <<65024, 65039>>, <<65043, 65043>>,
      <<65056, 65071>>, <<65106, 65106>>, <<65109, 65109>>, <<65279, 65279>>, <<65287,
      65287>>, <<65294, 65294>>, <<65306, 65306>>, <<65342, 65342>>, <<65344, 65344>>,
      <<65392, 65392>>, <<65438, 65439>>, <<65507, 65507>>, <<65529, 65531>>, <<66045,
      66045>>, <<66272, 66272>>, <<66422, 66426>>, <<67456, 67461>>, <<67463, 67504>>,
      <<67506, 67514>>, <<68097, 68099>>, <<68101, 68102>>, <<68108, 68111>>, <<68152,
      68154>>, <<68159, 68159>>, <<68325, 68326>>, <<68900, 68903>>, <<68942, 68942>>,
      <<68969, 68973>>, <<68975, 68975>>, <<69291, 69292>>, <<69317, 69317>>, <<69370,
      69375>>, <<69446, 69456>>, <<69506, 69509>>, <<69633, 69633>>, <<69688, 69702>>,
      <<69744, 69744>>, <<69747, 69748>>, <<69759, 69761>>, <<69811, 69814>>, <<69817,
      69818>>, <<69821, 69821>>, <<69826, 69826>>, <<69837, 69837>>, <<69888, 69890>>,
      <<69927, 69931>>, <<69933, 69940>>, <<70003, 70003>>, <<70016, 70017>>, <<70070,
      70078>>, <<70089, 70092>>, <<70095, 70095>>, <<70191, 70193>>, <<70196, 70196>>,
      <<70198, 70199>>, <<70206, 70206>>, <<70209, 70209>>, <<70367, 70367>>, <<70371,
      70378>>, <<70400, 70401>>, <<70459, 70460>>, <<70464, 70464>>, <<70502, 70508>>,
      <<70512, 70516>>, <<70587, 70592>>, <<70606, 70606>>, <<70608, 70608>>, <<70610,
      70610>>, <<70625, 70626>>, <<70712, 70719>>, <<70722, 70724>>, <<70726, 70726>>,
      <<70750, 70750>>, <<70835, 70840>>, <<70842, 70842>>, <<70847, 70848>>, <<70850,
      70851>>, <<71090, 71093>>, <<71100, 71101>>, <<71103, 71104>>, <<71132, 71133>>,
      <<71219, 71226>>, <<71229, 71229>>, <<71231, 71232>>, <<71339, 71339>>, <<71341,
      71341>>, <<71344, 71349>>, <<71351, 71351>>, <<71453, 71453>>, <<71455, 71455>>,
      <<71458, 71461>>, <<71463, 71467>>, <<71727, 71735>>, <<71737, 71738>>, <<71995,
      71996>>, <<71998, 71998>>, <<72003, 72003>>, <<72148, 72151>>, <<72154, 72155>>,
      <<72160, 72160>>, <<72193, 72202>>, <<72243, 72248>>, <<72251, 72254>>, <<72263,
      72263>>, <<72273, 72278>>, <<72281, 72283>>, <<72330, 72342>>, <<72344, 72345>>,
      <<72544, 72544>>, <<72546, 72548>>, <<72550, 72550>>, <<72752, 72758>>, <<72760,
      72765>>, <<72767, 72767>>, <<72850, 72871>>, <<72874, 72880>>, <<72882, 72883>>,
      <<72885, 72886>>, <<73009, 73014>>, <<73018, 73018>>, <<73020, 73021>>, <<73023,
      73029>>, <<73031, 73031>>, <<73104, 73105>>, <<73109, 73109>>, <<73111, 73111>>,
      <<73177, 73177>>, <<73459, 73460>>, <<73472, 73473>>, <<73526, 73530>>, <<73536,
      73536>>, <<73538, 73538>>, <<73562, 73562>>, <<78896, 78912>>, <<78919, 78933>>,
      <<90398, 90409>>, <<90413, 90415>>, <<92912, 92916>>, <<92976, 92982>>, <<92992,
      92995>>, <<93504, 93506>>, <<93547, 93548>>, <<94031, 94031>>, <<94095, 94111>>,
      <<94176, 94177>>, <<94179, 94180>>, <<94194, 94195>>, <<110576, 110579>>, <<110581,
      110587>>, <<110589, 110590>>, <<113821, 113822>>, <<113824, 113827>>, <<118528,
      118573>>, <<118576, 118598>>, <<119143, 119145>>, <<119155, 119170>>, <<119173,
      119179>>, <<119210, 119213>>, <<119362, 119364>>, <<121344, 121398>>, <<121403,
      121452>>, <<121461, 121461>>, <<121476, 121476>>, <<121499, 121503>>, <<121505,
      121519>>, <<122880, 122886>>, <<122888, 122904>>, <<122907, 122913>>, <<122915,
      122916>>, <<122918, 122922>>, <<122928, 122989>>, <<123023, 123023>>, <<123184,
      123197>>, <<123566, 123566>>, <<123628, 123631>>, <<124139, 124143>>, <<124398,
      124399>>, <<124643, 124643>>, <<124646, 124646>>, <<124654, 124655>>, <<124661,
      124661>>, <<124671, 124671>>, <<125136, 125142>>, <<125252, 125259>>, <<127995,
      127999>>, <<917505, 917505>>, <<917536, 917631>>, <<917760, 917999>>
     >>]

\* event.message.toLowerCase(): the text is read code point by code point (a
\* high surrogate followed by a low surrogate is one code point), each is
\* replaced by its lower-case mapping, and the result is written in code
\* units again.  Below the second entry of the lower-case list only the first
\* one, the letters A to Z, can apply.
toLowerCase(message) ==
    CHOOSE lowered \in
        {LET n == Len(message)
             IsHigh(u) == 55296 <= u /\ u <= 56319
             IsLow(u) == 56320 <= u /\ u <= 57343
             Second(i) == i > 1 /\ IsLow(message[i]) /\ IsHigh(message[i - 1])
             Starts == {i \in 1..n : ~Second(i)}
             CodePoint(i) ==
                 IF IsHigh(message[i]) /\ i < n /\ IsLow(message[i + 1])
                 THEN 65536 + (message[i] - 55296) * 1024 + (message[i + 1] - 56320)
                 ELSE message[i]
             In(cp, list) == \E k \in DOMAIN list : list[k][1] <= cp /\ cp <= list[k][2]
             Ignorable(i) == In(CodePoint(i), data.caseIgnorable)
             Cased(i) == ~Ignorable(i) /\ In(CodePoint(i), data.cased)
             FinalSigma(i) ==
                 /\ \E j \in Starts :
                       /\ j < i /\ Cased(j)
                       /\ \A k \in Starts : (j < k /\ k < i) => Ignorable(k)
                 /\ ~\E j \in Starts :
                       /\ j > i /\ Cased(j)
                       /\ \A k \in Starts : (i < k /\ k < j) => Ignorable(k)
             Entries(cp) ==
                 {k \in (IF cp < data.lower[2][1] THEN {1} ELSE DOMAIN data.lower) :
                     /\ data.lower[k][1] <= cp /\ cp <= data.lower[k][2]
                     /\ (cp - data.lower[k][1]) % data.lower[k][3] = 0}
             Simple(cp) ==
                 IF Entries(cp) = {} THEN cp
                 ELSE cp + data.lower[CHOOSE k \in Entries(cp) : TRUE][4]
             CodeUnits(cp) ==
                 IF cp < 65536 THEN <<cp>>
                 ELSE <<55296 + ((cp - 65536) \div 1024), 56320 + ((cp - 65536) % 1024)>>
             Lower(i) ==
                 IF CodePoint(i) = 931 THEN (IF FinalSigma(i) THEN <<962>> ELSE <<963>>)
                 ELSE IF CodePoint(i) = 304 THEN <<105, 775>>
                 ELSE CodeUnits(Simple(CodePoint(i)))
             RECURSIVE From(_)
             From(i) ==
                 IF i > n THEN <<>>
                 ELSE IF Second(i) THEN From(i + 1)
                 ELSE Lower(i) \o From(i + 1)
         IN  From(1) : data \in {UnicodeData}} : TRUE

\* The text literals of the agent sample: the case labels of its switch,
\* 'transfer', 'close', 'time', 'date', 'online', 'back soon', 'away',
\* 'offline', 'content'; the text 'transferring you to a new skill'; and the
\* parts of `you said ${event.message}!`.
AgentTexts ==
    [transfer |->
      <<116, 114, 97, 110, 115, 102, 101, 114>>,
     close |->
      <<99, 108, 111, 115, 101>>,
     time |->
      <<116, 105, 109, 101>>,
     date |->
      <<100, 97, 116, 101>>,
     online |->
      <<111, 110, 108, 105, 110, 101>>,
     backSoon |->
      <<98, 97, 99, 107, 32, 115, 111, 111, 110>>,
     away |->
      <<97, 119, 97, 121>>,
     offline |->
      <<111, 102, 102, 108, 105, 110, 101>>,
     content |->
      <<99, 111, 110, 116, 101, 110, 116>>,
     transferring |->
      <<116, 114, 97, 110, 115, 102, 101, 114, 114, 105, 110, 103, 32, 121, 111, 117, 32,
      116, 111, 32, 97, 32, 110, 101, 119, 32, 115, 107, 105, 108, 108>>,
     youSaid |->
      <<121, 111, 117, 32, 115, 97, 105, 100, 32>>,
     bang |->
      <<33>>]

\* (new Date()).toTimeString() and toDateString(): a text of the local
\* clock, here '<time>' and '<date>'.
toTimeString ==
    <<60, 116, 105, 109, 101, 62>>

toDateString ==
    <<60, 100, 97, 116, 101, 62>>

\* The message of a content event is a value of the program: a string with
\* its code units, or a value that is not a string.  The consumer sends the
\* texts 'transfer', 'Transfer', 'TRANSFER', 'close', 'Close', 'TIME', 'Date',
\* 'Online', 'Back Soon', 'AWAY', 'offline', 'Content', 'hello', 'BAC' U+212A
\* ' SOON' (with the Kelvin sign) and 'T' U+0130 'ME' (with the dotted capital
\* I); a file, whose message is an object; and a content event that has no
\* message.
AgentMessages ==
    {[typeof |-> "string", units |-> t] :
        t \in {<<116, 114, 97, 110, 115, 102, 101, 114>>,
               <<84, 114, 97, 110, 115, 102, 101, 114>>,
               <<84, 82, 65, 78, 83, 70, 69, 82>>,
               <<99, 108, 111, 115, 101>>,
               <<67, 108, 111, 115, 101>>,
               <<84, 73, 77, 69>>,
               <<68, 97, 116, 101>>,
               <<79, 110, 108, 105, 110, 101>>,
               <<66, 97, 99, 107, 32, 83, 111, 111, 110>>,
               <<65, 87, 65, 89>>,
               <<111, 102, 102, 108, 105, 110, 101>>,
               <<67, 111, 110, 116, 101, 110, 116>>,
               <<104, 101, 108, 108, 111>>,
               <<66, 65, 67, 8490, 32, 83, 79, 79, 78>>,
               <<84, 304, 77, 69>>}}
    \cup {[typeof |-> "object"], [typeof |-> "undefined"]}

\* The switch on event.message.toLowerCase() of the agent sample, for a
\* message that is a string.
AgentReply(event) ==
    LET message == toLowerCase(event.message.units)
    IN  CASE message = AgentTexts.transfer ->
                <<sendText(event.dialogId, AgentTexts.transferring),
                  transferConversation(event.dialogId, transferSkill)>>
          [] message = AgentTexts.close -> <<closeConversation(event.dialogId)>>
          [] message = AgentTexts.time -> <<sendText(event.dialogId, toTimeString)>>
          [] message = AgentTexts.date -> <<sendText(event.dialogId, toDateString)>>
          [] message = AgentTexts.online -> <<setAgentState("ONLINE")>>
          [] message = AgentTexts.backSoon -> <<setAgentState("BACK_SOON")>>
          [] message = AgentTexts.away -> <<setAgentState("AWAY")>>
          [] message = AgentTexts.offline -> <<setAgentState("OFFLINE")>>
          [] message = AgentTexts.content -> <<sendRichContent(event.dialogId, "card")>>
          [] OTHER -> <<sendText(event.dialogId,
                                 AgentTexts.youSaid \o event.message.units \o AgentTexts.bang)>>

\* agent.js, agent.on(Bot.const.CONTENT_NOTIFICATION, ...): the calls the
\* listener issues for one content notification.  event.message.toLowerCase()
\* throws a TypeError when the message is not a string.
AgentContentListener(convs, event) ==
    IF /\ event.originatorMetadata.role = "CONSUMER"
       /\ getRole(Get(convs, event.dialogId)[1].conversationDetails[1], agentId)
              = Some("ASSIGNED_AGENT")
    THEN IF event.message.typeof = "string"
         THEN [calls |-> AgentReply(event), threw |-> FALSE]
         ELSE [calls |-> <<>>, threw |-> TRUE]
    ELSE [calls |-> <<>>, threw |-> FALSE]

\* Object.keys(respond).forEach(key => ...) of the messaging handler when the
\* listener of agent.js is registered: each emit runs the listener before the
\* loop goes on, and an exception of the listener ends the loop.
RECURSIVE AgentRespondLoop(_, _, _, _, _)
AgentRespondLoop(convs, entry, respond, i, st) ==
    IF i > Len(respond) \/ st.threw
    THEN st
    ELSE IF entry.conversationDetails = None
    THEN [st EXCEPT !.threw = TRUE]
    ELSE LET contentEvent == respond[i].value
             read == IF getRole(entry.conversationDetails[1], agentId) = Some("ASSIGNED_AGENT")
                     THEN <<markAsRead(contentEvent.dialogId, <<contentEvent.sequence>>)>>
                     ELSE <<>>
             heard == AgentContentListener(convs, contentEvent)
         IN  AgentRespondLoop(convs, entry, respond, i + 1,
                 [effects |-> st.effects \o read \o <<EmitContent(contentEvent)>>
                                         \o heard.calls,
                  threw |-> heard.threw])

\* this.on('ms.MessagingEventNotification', ...) in the agent sample
AgentOnMessagingEvent(body) ==
    /\ Idle
    /\ LET respond == Respond(myConversations, body, 1, <<>>)
           done == IF Get(myConversations, body.dialogId) # None
                   THEN AgentRespondLoop(myConversations,
                                         Get(myConversations, body.dialogId)[1],
                                         respond, 1, [effects |-> <<>>, threw |-> FALSE])
                   ELSE [effects |-> <<>>, threw |-> FALSE]
       IN  last' = [event |-> "messaging", body |-> body, threw |-> done.threw,
                    effects |-> done.effects]
    /\ pending' = InFlight(pending, Callbacks(last'.effects))
    /\ UNCHANGED <<connVars, convVars, cfgVars, histVars>>

\* The messaging changes the agent sample is sent: the consumer's messages,
\* and a text of another agent and of the bot itself.
AgentSecondChanges ==
    {MsgChange("c1", 2, "consumer", "CONSUMER",
               ContentEvent([typeof |-> "string", units |-> AgentTexts.transfer])),
     MsgChange("c1", 2, "agent2", "ASSIGNED_AGENT",
               ContentEvent([typeof |-> "string", units |-> AgentTexts.close])),
     MsgChange("c1", 2, agentId, "ASSIGNED_AGENT",
               ContentEvent([typeof |-> "string", units |-> AgentTexts.close]))}

AgentMsgChanges ==
    {MsgChange("c1", 1, "consumer", "CONSUMER", ContentEvent(m)) : m \in AgentMessages}
    \cup AgentSecondChanges

\* A notification carries one change, or one of the consumer's texts followed
\* by further changes.
AgentMsgBatches ==
    {[dialogId |-> "c1", changes |-> <<c>> \o cs] :
        c \in AgentMsgChanges,
        cs \in UNION {[1..n -> AgentSecondChanges] : n \in 0..(MaxAgentBatch - 1)}}

\* The agent sample and the routing notifications.
NextAgent ==
    \/ Idle /\ \E body \in RoutingBatches : AgentOnRoutingNotification(body)
    \/ \E cb \in BagToSet(pending), e \in BOOLEAN : Complete(cb, e)
    \/ TurnEnds

SpecAgent == InitAgent /\ [][NextAgent]_vars

\* The agent sample and the conversations it talks in.
NextAgentChat ==
    \/ Idle /\ \E body \in MsgSpecConvBatches : OnConversationChange(body)
    \/ Idle /\ \E body \in AgentMsgBatches : AgentOnMessagingEvent(body)
    \/ \E cb \in BagToSet(pending), e \in BOOLEAN : Complete(cb, e)
    \/ TurnEnds

SpecAgentChat == InitAgent /\ [][NextAgentChat]_vars

\* event.changes.forEach(change => { if (!getRole(change.result.conversationDetails))
\* joinConversation(change.result.convId, role) }) of the reader and the
\* manager.  The role is falsy when it is undefined or the empty text.  A
\* change without conversationDetails makes getRole throw.
RECURSIVE JoinListener(_, _, _, _)
JoinListener(role, changes, i, st) ==
    IF i > Len(changes) \/ st.threw
    THEN st
    ELSE IF changes[i].result.conversationDetails = None
    THEN [st EXCEPT !.threw = TRUE]
    ELSE IF getRole(changes[i].result.conversationDetails[1], agentId) \in {None, Some("")}
    THEN JoinListener(role, changes, i + 1,
             [st EXCEPT !.effects =
                 @ \o joinConversation(changes[i].result.convId, role, None).effects])
    ELSE JoinListener(role, changes, i + 1, st)

\* manager.js, manager.on(Bot.const.CONVERSATION_NOTIFICATION, ...): the
\* conversation handler's emit runs the listener.
ManagerOnConversationChange(body) ==
    /\ Idle
    /\ LET st == ConvChanges(body.changes, 1,
                     [convs |-> myConversations, effects |-> <<>>, threw |-> FALSE])
           emitted == Append(st.effects,
                             Emit(CONVERSATION_NOTIFICATION, "", <<>>, <<body>>))
           heard == JoinListener("MANAGER", body.changes, 1,
                                 [effects |-> emitted, threw |-> FALSE])
       IN  /\ myConversations' = st.convs
           /\ last' = [event |-> "conversation",
                       body |-> body,
                       before |-> myConversations,
                       threw |-> IF st.threw THEN TRUE ELSE heard.threw,
                       effects |-> IF st.threw THEN st.effects ELSE heard.effects]
    /\ pending' = InFlight(pending, Callbacks(last'.effects))
    /\ lastChange' = Delivered(body.changes, 1, lastChange)
    /\ subscribed' = subscribed \cup Subscriptions(last'.effects)
    /\ UNCHANGED <<connVars, cfgVars, histVars>>

\* reader.on(Bot.const.CONVERSATION_NOTIFICATION, ...): the same listener,
\* joining as READER.
ReaderOnConversationChange(body) ==
    /\ Idle
    /\ LET st == ConvChanges(body.changes, 1,
                     [convs |-> myConversations, effects |-> <<>>, threw |-> FALSE])
           emitted == Append(st.effects,
                             Emit(CONVERSATION_NOTIFICATION, "", <<>>, <<body>>))
           heard == JoinListener("READER", body.changes, 1,
                                 [effects |-> emitted, threw |-> FALSE])
       IN  /\ myConversations' = st.convs
           /\ last' = [event |-> "conversation",
                       body |-> body,
                       before |-> myConversations,
                       threw |-> IF st.threw THEN TRUE ELSE heard.threw,
                       effects |-> IF st.threw THEN st.effects ELSE heard.effects]
    /\ pending' = InFlight(pending, Callbacks(last'.effects))
    /\ lastChange' = Delivered(body.changes, 1, lastChange)
    /\ subscribed' = subscribed \cup Subscriptions(last'.effects)
    /\ UNCHANGED <<connVars, cfgVars, histVars>>

\* The conversation changes the reader and the manager are told of: single
\* records; the bot is listed with a role, with an odd role or not at all;
\* a DELETE comes with or without the conversation details.
SampleConvBatches ==
    {[changes |-> <<r>>] :
        r \in {Upsert(c, ps, None) : c \in ConvIds, ps \in ParticipantLists}
              \cup {Upsert(c, ps, None) : c \in ConvIds, ps \in OddRoleLists}
              \cup {Delete(c) : c \in ConvIds}
              \cup {DeleteWith(c, ps) : c \in ConvIds, ps \in {ConsumerOnly, WithReader}}}

NextManager ==
    \/ Idle /\ \E body \in SampleConvBatches : ManagerOnConversationChange(body)
    \/ \E cb \in BagToSet(pending), e \in BOOLEAN : Complete(cb, e)
    \/ TurnEnds

SpecManager == InitManager /\ [][NextManager]_vars

\* The reader is constructed as the manager is: new Bot(agent_config, 'AWAY', true)
NextReader ==
    \/ Idle /\ \E body \in SampleConvBatches : ReaderOnConversationChange(body)
    \/ \E cb \in BagToSet(pending), e \in BOOLEAN : Complete(cb, e)
    \/ TurnEnds

SpecReader == InitManager /\ [][NextReader]_vars

-----------------------------------------------------------------------------
(* Properties of the reconnect sequence *)

\* 5 * 1.2^(n-1) seconds as the fraction  5 * 6^(n-1) / 5^(n-1)  of two
\* numbers of any size, for every attempt n
GeometricDelays ==
    LET pow[k \in {5, 6}, n \in 0..reconnectAttempts] ==
            IF n = 0 THEN <<1>>
            ELSE CHOOSE next \in {BigMul(p, <<k>>) : p \in {pow[k, n - 1]}} : TRUE
    IN  [n \in 1..(reconnectAttempts + 1) |->
            [num |-> BigMul(pow[6, n - 1], <<reconnectInterval>>), den |-> pow[5, n - 1]]]

\* The Number delay and 5 * 1.2^(n-1), both multiplied by 5^(n-1) and by the
\* power of two that makes them integers.
DelayScaled(delay, n) ==
    BigShiftLeft(BigMul(delay.man, GeometricDelays[n].den),
                 IF delay.exp > 0 THEN delay.exp ELSE 0)

GeometricScaled(delay, n) ==
    BigShiftLeft(GeometricDelays[n].num, IF delay.exp < 0 THEN 0 - delay.exp ELSE 0)

\* delay is 5 * 1.2^(n-1) seconds
IsGeometricDelay(delay, n) == DelayScaled(delay, n) = GeometricScaled(delay, n)

\* 10^14 as a number of any size
OnePartIn ==
    LET pow[n \in 0..14] ==
            IF n = 0 THEN <<1>>
            ELSE CHOOSE next \in {BigMul(p, <<10>>) : p \in {pow[n - 1]}} : TRUE
    IN  pow[14]

\* a + b and a <= b for numbers of any size
BigSum(a, b) ==
    LET digit(x, i) == IF i <= Len(x) THEN x[i] ELSE 0
    IN  BigTrim(BigCarry([i \in 1..(IF Len(a) >= Len(b) THEN Len(a) ELSE Len(b)) |->
                             digit(a, i) + digit(b, i)], 1, 0))

BigAtMost(a, b) ==
    \/ Len(a) < Len(b)
    \/ /\ Len(a) = Len(b)
       /\ \/ a = b
          \/ LET top == CHOOSE i \in 1..Len(a) :
                            a[i] # b[i] /\ \A j \in (i + 1)..Len(a) : a[j] = b[j]
             IN  a[top] < b[top]

\* delay is 5 * 1.2^(n-1) seconds to one part in 10^14
NearGeometricDelay(delay, n) ==
    LET a == BigMul(DelayScaled(delay, n), OnePartIn)
        b == GeometricScaled(delay, n)
        c == BigMul(b, OnePartIn)
    IN  BigAtMost(a, BigSum(c, b)) /\ BigAtMost(c, BigSum(a, b))

\* The only closed event of the run has been handled and no connected
\* event has been handled since.
OneClosedNoConnected == nClosed = 1 /\ phase = "closed"

\* C1, as stated: after one closed event with no connected and no further
\* closed event, the n-th reconnect() call follows a delay of exactly
\* 5 * 1.2^(n-1) seconds, the pending timeout is the one of the next attempt,
\* and once no timeout is pending exactly 35 calls have been made.
C1_ReconnectSchedule ==
    OneClosedNoConnected =>
        /\ reconnects <= reconnectAttempts
        /\ Cardinality(timeouts) <= 1
        /\ \A t \in timeouts :
              /\ t.attempt = reconnects + 1
              /\ t.attempt <= reconnectAttempts
              /\ IsGeometricDelay(t.delay, t.attempt)
        /\ (last.event = "retry" =>
              /\ last.timer.attempt = reconnects
              /\ IsGeometricDelay(last.timer.delay, reconnects))
        /\ (timeouts = {} => reconnects = reconnectAttempts)

\* C1, amended: after one closed event with no connected and no further
\* closed event, the n-th reconnect() call follows a delay that is the
\* double-precision product 5 * 1.2 * ... * 1.2 (n-1 factors), equal to
\* 5 * 1.2^(n-1) seconds to one part in 10^14; the pending timeout is the one
\* of the next attempt, and once no timeout is pending exactly 35 calls have
\* been made: there is no 36th.
C1_ReconnectScheduleRounded ==
    OneClosedNoConnected =>
        /\ reconnects <= reconnectAttempts
        /\ Cardinality(timeouts) <= 1
        /\ \A t \in timeouts :
              /\ t.attempt = reconnects + 1
              /\ t.attempt <= reconnectAttempts
              /\ NearGeometricDelay(t.delay, t.attempt)
        /\ (last.event = "retry" =>
              /\ last.timer.attempt = reconnects
              /\ NearGeometricDelay(last.timer.delay, reconnects))
        /\ (timeouts = {} => reconnects = reconnectAttempts)

\* The 35th attempt has just been made and nothing is scheduled after it.
C1_Witness ==
    /\ OneClosedNoConnected
    /\ last.event = "retry"
    /\ last.timer.attempt = reconnectAttempts
    /\ NearGeometricDelay(last.timer.delay, reconnectAttempts)
    /\ ~IsGeometricDelay(last.timer.delay, reconnectAttempts)
    /\ reconnects = reconnectAttempts
    /\ timeouts = {}

\* C2: once a connected event has been handled no reconnect timeout is
\* pending and reconnect() is not called until a later closed event, and the
\* sequence a closed event starts begins at attempt 1 with a delay of 5 s.
C2_ConnectedStopsReconnect ==
    /\ (phase = "connected" => timeouts = {} /\ last.event # "retry")
    /\ (last.event = "closed" =>
            \E t \in timeouts :
                /\ t.id = _retryConnection
                /\ t.attempt = 1
                /\ t.delay = Double(reconnectInterval))

\* 35 reconnect attempts have been made since the socket closed, without a
\* connected event.
Exhausted == phase = "closed" /\ reconnects >= reconnectAttempts

\* C3: EXHAUSTED is terminal: in it no reconnect timeout is pending, and no
\* event handled in it schedules one.
C3_ExhaustedIsTerminal == [][Exhausted => (timeouts = {} /\ timeouts' = {})]_vars

\* C4: after a closed event the session eventually handles a connected event
\* or has made its 35 attempts with no reconnect timeout pending.
C4_ReconnectEnds ==
    (phase = "closed") ~> (phase = "connected" \/ (Exhausted /\ timeouts = {}))

\* The loop is waiting in the exhausted state.
C4_Witness == Exhausted /\ timeouts = {} /\ Idle

\* C5: after a closed event and before the next connected event no keep-alive
\* interval is active and no clock probe is issued.
C5_ClosedStopsKeepAlive ==
    phase = "closed" => intervals = {} /\ last.event # "ping"

-----------------------------------------------------------------------------
(* Properties of the tracked table *)

\* C6: a conversation id is tracked if and only if the latest change record
\* delivered for it was an UPSERT.
C6_TrackedIffUpserted ==
    \A c \in ConvIds : (c \in DOMAIN myConversations) <=> (lastChange[c] = "UPSERT")

\* The transport calls named `name` that a handler issued for conversation c.
CallsFor(effects, name, c) ==
    Cardinality({i \in 1..Len(effects) :
                    /\ effects[i].kind = "call"
                    /\ effects[i].name = name
                    /\ effects[i].conv = c})

\* The UPSERT records for c in changes[i..] that find c untracked, when an
\* UPSERT tracks the id and a DELETE untracks it.
RECURSIVE FirstUpserts(_, _, _, _)
FirstUpserts(changes, i, c, tracked) ==
    IF i > Len(changes)
    THEN 0
    ELSE IF changes[i].result.convId # c
    THEN FirstUpserts(changes, i + 1, c, tracked)
    ELSE IF changes[i].type = "UPSERT"
    THEN (IF tracked THEN 0 ELSE 1) + FirstUpserts(changes, i + 1, c, TRUE)
    ELSE FirstUpserts(changes, i + 1, c, FALSE)

\* C7: an UPSERT record for an id that is not tracked triggers exactly one
\* user-profile lookup and exactly one subscribe-messaging-events call for
\* that id and leaves it tracked; an UPSERT for a tracked id triggers neither.
C7_FirstUpsertSubscribesOnce ==
    last.event = "conversation" =>
        \A c \in ConvIds \cup InheritedIds :
            LET n == FirstUpserts(last.body.changes, 1, c, c \in DOMAIN last.before)
            IN  /\ CallsFor(last.effects, "getUserProfile", c) = n
                /\ CallsFor(last.effects, "subscribeMessagingEvents", c) = n
                /\ (n > 0 /\ lastChange[c] = "UPSERT" => c \in DOMAIN myConversations)

-----------------------------------------------------------------------------
(* Properties of the messaging handler *)

Range(seq) == {seq[i] : i \in 1..Len(seq)}

\* A messaging notification has just been handled for a conversation id that
\* has an entry in the table.
HandledTracked == last.event = "messaging" /\ last.body.dialogId \in DOMAIN myConversations

\* A messaging notification has just been handled for a conversation id that
\* was never upserted, or was deleted since its last upsert: the latest
\* change record delivered for the id is not an UPSERT.
HandledUntracked == last.event = "messaging" /\ lastChange[last.body.dialogId] # "UPSERT"

\* Every change of the batch is about the batch's conversation.
OnOneConversation(body) ==
    \A i \in 1..Len(body.changes) : body.changes[i].dialogId = body.dialogId

\* A content event of a participant other than the bot.
ForeignContent(change) ==
    change.event.type = "ContentEvent" /\ change.originatorId # agentId

\* A read-receipt of the bot that lists sequence s.
OwnReceiptOf(change, s) ==
    /\ change.event.type = "AcceptStatusEvent"
    /\ change.originatorId = agentId
    /\ s \in Range(change.event.sequenceList)

\* A read-receipt of any participant that lists sequence s.
ReceiptOf(change, s) ==
    change.event.type = "AcceptStatusEvent" /\ s \in Range(change.event.sequenceList)

\* The content notifications emitted, and the read-receipts published, for
\* sequence s of conversation c.
EmittedFor(effects, c, s) ==
    Cardinality({i \in 1..Len(effects) :
                    /\ effects[i].kind = "emit"
                    /\ effects[i].name = CONTENT_NOTIFICATION
                    /\ effects[i].conv = c
                    /\ effects[i].seqs = <<s>>})

ReadFor(effects, c, s) ==
    Cardinality({i \in 1..Len(effects) :
                    /\ effects[i].kind = "call"
                    /\ effects[i].name = "publishEvent"
                    /\ effects[i].conv = c
                    /\ s \in Range(effects[i].seqs)})

\* C8 as stated: a batch whose conversation id is not tracked when it is
\* handled (never upserted, or deleted since its last upsert) emits no content
\* notification and publishes no read-receipt, whatever it holds.
C8_UntrackedBatchIgnored ==
    HandledUntracked =>
        \A i \in 1..Len(last.effects) :
            /\ last.effects[i].name # CONTENT_NOTIFICATION
            /\ last.effects[i].name # "publishEvent"

\* C9 as stated: a foreign content event followed in the batch by a
\* read-receipt of the bot covering its sequence gives no content
\* notification and no read-receipt for that sequence.
C9_ReadLaterInBatch ==
    (HandledTracked /\ OnOneConversation(last.body)) =>
        \A i \in 1..Len(last.body.changes) :
            LET s == last.body.changes[i].sequence
            IN  (/\ ForeignContent(last.body.changes[i])
                 /\ \E j \in (i + 1)..Len(last.body.changes) :
                        OwnReceiptOf(last.body.changes[j], s))
                => /\ EmittedFor(last.effects, last.body.dialogId, s) = 0
                   /\ ReadFor(last.effects, last.body.dialogId, s) = 0

\* C9 amended: the same, when no foreign content event with that sequence
\* comes after that read-receipt.
C9_ReadLastInBatch ==
    (HandledTracked /\ OnOneConversation(last.body)) =>
        \A i \in 1..Len(last.body.changes) :
            LET s == last.body.changes[i].sequence
            IN  (/\ ForeignContent(last.body.changes[i])
                 /\ \E j \in (i + 1)..Len(last.body.changes) :
                        /\ OwnReceiptOf(last.body.changes[j], s)
                        /\ \A k \in (j + 1)..Len(last.body.changes) :
                               ~(/\ ForeignContent(last.body.changes[k])
                                 /\ last.body.changes[k].sequence = s))
                => /\ EmittedFor(last.effects, last.body.dialogId, s) = 0
                   /\ ReadFor(last.effects, last.body.dialogId, s) = 0

\* The bot is assigned agent; two consumer messages arrive with the bot's
\* read-receipt of the first: only the second is notified and marked read.
C9_Witness ==
    /\ HandledTracked
    /\ OnOneConversation(last.body)
    /\ Len(last.body.changes) = 3
    /\ ForeignContent(last.body.changes[1]) /\ last.body.changes[1].sequence = 1
    /\ ForeignContent(last.body.changes[2]) /\ last.body.changes[2].sequence = 2
    /\ OwnReceiptOf(last.body.changes[3], 1) /\ ~OwnReceiptOf(last.body.changes[3], 2)
    /\ ~last.threw
    /\ EmittedFor(last.effects, last.body.dialogId, 1) = 0
    /\ EmittedFor(last.effects, last.body.dialogId, 2) = 1
    /\ ReadFor(last.effects, last.body.dialogId, 2) = 1

\* The bot's role in the detail snapshot of the tracked conversation c.
SnapshotRole(c) ==
    IF myConversations[c].conversationDetails = None
    THEN None
    ELSE getRole(myConversations[c].conversationDetails[1], agentId)

\* C10: a foreign content event with no read-receipt covering its sequence in
\* the batch gives exactly one content notification, whatever the bot's role,
\* and a read-receipt exactly when that role is ASSIGNED_AGENT.
C10_UnreadIsNotified ==
    (HandledTracked /\ OnOneConversation(last.body)) =>
        \A i \in 1..Len(last.body.changes) :
            LET s == last.body.changes[i].sequence
                c == last.body.dialogId
            IN  (/\ ForeignContent(last.body.changes[i])
                 /\ \A j \in 1..Len(last.body.changes) :
                        ~ReceiptOf(last.body.changes[j], s))
                => /\ EmittedFor(last.effects, c, s) = 1
                   /\ ReadFor(last.effects, c, s) =
                          (IF SnapshotRole(c) = Some("ASSIGNED_AGENT") THEN 1 ELSE 0)

-----------------------------------------------------------------------------
(* Properties of the transport events *)

\* The downstream events named `name` among the effects of a handler.
Emitted(effects, name) ==
    Cardinality({i \in 1..Len(effects) :
                    effects[i].kind = "emit" /\ effects[i].name = name})

\* The transport calls named `name` among the effects of a handler.
Called(effects, name) ==
    Cardinality({i \in 1..Len(effects) :
                    effects[i].kind = "call" /\ effects[i].name = name})

\* C11: a closed event is re-emitted as exactly one Bot.SocketClosed event and
\* starts the reconnect sequence, and an error event is re-emitted as exactly
\* one Bot.Error event.
C11_ClosedAndErrorReemitted ==
    /\ (last.event = "closed" =>
            /\ Emitted(last.effects, SOCKET_CLOSED) = 1
            /\ \E t \in timeouts : t.id = _retryConnection /\ t.attempt = 1)
    /\ (last.event = "error" => Emitted(last.effects, ERROR) = 1)

\* The subscribe-conversations calls of a handler that are filtered to OPEN
\* conversations and name the local agent exactly when own is true.
OpenSubscriptions(effects, own) ==
    Cardinality({i \in 1..Len(effects) :
                    /\ effects[i].kind = "call"
                    /\ effects[i].name = "subscribeExConversations"
                    /\ "OPEN" \in Range(effects[i].info)
                    /\ (agentId \in Range(effects[i].info)) <=> own})

\* C12: every connected event emits one Bot.Connected event and issues one
\* subscribe-agent-state, one subscribe-routing-tasks, one set-agent-state
\* with the configured initial presence and one subscribe-conversations call
\* for OPEN conversations, with the agent id iff not in all-conversations mode.
C12_ConnectedSubscribes ==
    last.event = "connected" =>
        /\ Len(last.effects) = 5
        /\ Emitted(last.effects, CONNECTED) = 1
        /\ Called(last.effects, "subscribeAgentsState") = 1
        /\ Called(last.effects, "subscribeRoutingTasks") = 1
        /\ Called(last.effects, "setAgentState") = 1
        /\ \A i \in 1..Len(last.effects) :
              last.effects[i].name = "setAgentState" =>
                  last.effects[i].info = <<initialState>>
        /\ Called(last.effects, "subscribeExConversations") = 1
        /\ OpenSubscriptions(last.effects, ~subscribeAllConversations) = 1

\* A reconnect of a session that subscribes to its own conversations only.
C12_Witness ==
    /\ last.event = "connected"
    /\ nClosed = 1
    /\ ~subscribeAllConversations
    /\ OpenSubscriptions(last.effects, TRUE) = 1

-----------------------------------------------------------------------------
(* Properties of the completions *)

\* A completion callback has just run: any one, one with an error.
Completed == last.event = "completion"
Failed == Completed /\ last.error

\* C13: when the user-profile lookup of a tracked conversation has completed
\* successfully, the entry of that conversation holds a consumer profile.
C13_ProfileCached ==
    (/\ Completed /\ ~last.error
     /\ last.call.name = "getUserProfile"
     /\ last.call.closure.conv \in DOMAIN myConversations)
    => myConversations[last.call.closure.conv].consumerProfile # None

\* The methods whose completion the session handles.
TransportCalls ==
    {"subscribeAgentsState", "subscribeExConversations", "subscribeRoutingTasks",
     "subscribeMessagingEvents", "setAgentState", "getUserProfile", "getClock",
     "publishEvent", "updateConversationField", "updateRingState"}

\* C14: the error completion of a transport call issues no transport call,
\* emits no event, and leaves the tracked table, the keep-alive timer and the
\* reconnect timer as they are; the callback is not registered again.
C14_ErrorCompletionIsInert ==
    [][(last'.event = "completion" /\ last'.error) =>
          /\ last'.call.name \in TransportCalls
          /\ last'.effects = <<>>
          /\ pending' \in AfterCompletion(pending, last'.call)
          /\ UNCHANGED <<connVars, convVars>>]_vars

\* The join of an announcing manager has failed while the session is
\* connected and tracks a conversation.
C14_Witness ==
    /\ Failed
    /\ last.call.name = "updateConversationField"
    /\ Truthy(last.call.closure.announce)
    /\ last.call.closure.role = "MANAGER"
    /\ intervals # {}
    /\ "c1" \in DOMAIN myConversations

-----------------------------------------------------------------------------
(* Properties of joinConversation and acceptWaitingConversations *)

Joined == last.event = "joinConversation"

\* C15: joinConversation with a role outside {READER, MANAGER, ASSIGNED_AGENT}
\* issues no call, registers nothing, changes no state and returns false; with
\* a role inside it issues exactly one update-conversation-field call that
\* adds the role as participant.
C15_JoinChecksRole ==
    [][last'.event = "joinConversation" =>
          IF last'.args.role \in {"READER", "MANAGER", "ASSIGNED_AGENT"}
          THEN /\ Len(last'.effects) = 1
               /\ last'.effects[1].kind = "call"
               /\ last'.effects[1].name = "updateConversationField"
               /\ last'.effects[1].conv = last'.args.conv
               /\ last'.effects[1].info = <<"ParticipantsChange", "ADD", last'.args.role>>
          ELSE /\ last'.effects = <<>>
               /\ last'.value = Some(FALSE)
               /\ UNCHANGED <<connVars, convVars, cfgVars, pending, histVars>>]_vars

\* join(id, 'HACKER') has been rejected.
C15_Witness ==
    /\ Joined
    /\ last.args.role = "HACKER"
    /\ last.value = Some(FALSE)
    /\ last.effects = <<>>

\* The text events among the effects of a handler that say "<role> joined"
\* in conversation c.
JoinedTexts(effects, c, role) ==
    Cardinality({i \in 1..Len(effects) :
                    /\ effects[i].kind = "call"
                    /\ effects[i].name = "publishEvent"
                    /\ effects[i].conv = c
                    /\ effects[i].info = <<"ContentEvent", "text/plain", role \o " joined">>})

\* C16: joinConversation itself publishes nothing; the completion of its call
\* publishes exactly one "<role> joined" text when it succeeded, announce is
\* true and the role is not READER, and publishes nothing otherwise.
C16_AnnounceAfterJoin ==
    /\ (Joined => Called(last.effects, "publishEvent") = 0)
    /\ (Completed /\ last.call.name = "updateConversationField" =>
            IF /\ ~last.error
               /\ last.call.closure.announce = Some(TRUE)
               /\ last.call.closure.role # "READER"
            THEN /\ Len(last.effects) = 1
                 /\ JoinedTexts(last.effects, last.call.closure.conv,
                                last.call.closure.role) = 1
            ELSE last.effects = <<>>)

\* The join of an announcing assigned agent has succeeded.
C16_Witness ==
    /\ Completed /\ ~last.error
    /\ last.call.name = "updateConversationField"
    /\ last.call.closure = Closure("c1", "ASSIGNED_AGENT", Some(TRUE))
    /\ JoinedTexts(last.effects, "c1", "ASSIGNED_AGENT") = 1

\* The places <<i, j>> of the rings with id r that are WAITING inside an
\* UPSERT change of the batch.
WaitingRings(body, r) ==
    UNION {{<<i, j>> : j \in {k \in 1..Len(body.changes[i].result.ringsDetails) :
                                /\ body.changes[i].result.ringsDetails[k].ringId = r
                                /\ body.changes[i].result.ringsDetails[k].ringState = "WAITING"}} :
           i \in {h \in 1..Len(body.changes) : body.changes[h].type = "UPSERT"}}

\* The update-ring-state calls of a handler for ring r.
RingCalls(effects, r) ==
    {i \in 1..Len(effects) :
        /\ effects[i].kind = "call"
        /\ effects[i].name = "updateRingState"
        /\ effects[i].info[1] = r}

RingIds == {"r1", "r2", "r3"}

\* C17: on every routing notification of the agent sample there is exactly
\* one update-ring-state call, to ACCEPTED, for each ring that is WAITING
\* inside an UPSERT change, and none for any other ring.
C17_AcceptsWaitingRings ==
    last.event = "routing" =>
        /\ \A r \in RingIds :
              Cardinality(RingCalls(last.effects, r)) =
                  Cardinality(WaitingRings(last.body, r))
        /\ \A i \in 1..Len(last.effects) :
              last.effects[i].name = "updateRingState" =>
                  /\ last.effects[i].info[1] \in RingIds
                  /\ last.effects[i].info[2] = "ACCEPTED"
        /\ Called(last.effects, "updateRingState") + 1 = Len(last.effects)

\* A batch with a waiting and an accepted ring, and with a waiting ring of a
\* removed task: one call, for the waiting ring of the upsert.
C17_Witness ==
    /\ last.event = "routing"
    /\ Len(last.body.changes) = 2
    /\ last.body.changes[1] =
          RoutingChange("UPSERT", "c1", <<Ring("r1", "WAITING"), Ring("r2", "ACCEPTED")>>)
    /\ last.body.changes[2] = RoutingChange("DELETE", "c1", <<Ring("r1", "WAITING")>>)
    /\ Called(last.effects, "updateRingState") = 1
    /\ Cardinality(RingCalls(last.effects, "r1")) = 1

\* C18: when the join of the manager sample as MANAGER has succeeded, one
\* text event "MANAGER joined" is published to the conversation.
C18_ManagerAnnouncesJoin ==
    (/\ Completed /\ ~last.error
     /\ last.call.name = "updateConversationField"
     /\ last.call.closure.role = "MANAGER")
    => JoinedTexts(last.effects, last.call.closure.conv, "MANAGER") = 1

-----------------------------------------------------------------------------
(* Properties of the re-emitted notifications *)

\* C19: a conversation-change batch gives exactly one conversation
\* notification, carrying the batch, after every record has been applied: when
\* it is emitted the table tracks the ids whose last record in the batch is an
\* UPSERT and not those whose last record is a DELETE.
C19_BatchReemittedOnce ==
    last.event = "conversation" =>
        /\ Emitted(last.effects, CONVERSATION_NOTIFICATION) = 1
        /\ last.effects[Len(last.effects)] =
              Emit(CONVERSATION_NOTIFICATION, "", <<>>, <<last.body>>)
        /\ LET after == Delivered(last.body.changes, 1, [c \in ConvIds |-> "none"])
           IN  \A c \in ConvIds :
                  /\ after[c] = "UPSERT" => c \in DOMAIN myConversations
                  /\ after[c] = "DELETE" => c \notin DOMAIN myConversations

\* C20: a routing-task notification and an agent-state notification are
\* re-emitted once with their body and a notification of another kind emits
\* nothing; none of them issues a transport call or changes the tracked table,
\* the keep-alive timer or the reconnect timer.
C20_NotificationsPassThrough ==
    [][(last'.event \in {"routing", "agentState", "notification"}) =>
          /\ UNCHANGED <<connVars, convVars, pending>>
          /\ last'.effects =
                IF last'.event = "routing"
                THEN <<Emit(ROUTING_NOTIFICATION, "", <<>>, <<last'.body>>)>>
                ELSE IF last'.event = "agentState"
                THEN <<Emit(AGENT_STATE_NOTIFICATION, "", <<>>, <<last'.body>>)>>
                ELSE <<>>]_vars

\* A routing notification with a waiting ring has been re-emitted while the
\* session is connected and tracks a conversation.
C20_Witness ==
    /\ last.event = "routing"
    /\ Cardinality(WaitingRings(last.body, "r1")) = 1
    /\ last.effects = <<Emit(ROUTING_NOTIFICATION, "", <<>>, <<last.body>>)>>
    /\ intervals # {}
    /\ "c1" \in DOMAIN myConversations

-----------------------------------------------------------------------------
(* Properties of the content notifications *)

\* The sequences a batch speaks of.
BatchSequences(body) ==
    {body.changes[i].sequence : i \in 1..Len(body.changes)}
    \cup UNION {Range(body.changes[i].event.sequenceList) : i \in 1..Len(body.changes)}

\* The places of the content events with sequence s in the batch: those of
\* other participants, and those of any participant.
ForeignContentAt(body, s) ==
    {i \in 1..Len(body.changes) :
        ForeignContent(body.changes[i]) /\ body.changes[i].sequence = s}

ContentAt(body, s) ==
    {i \in 1..Len(body.changes) :
        body.changes[i].event.type = "ContentEvent" /\ body.changes[i].sequence = s}

Last(places) == CHOOSE i \in places : \A j \in places : j <= i

\* Sequence s has a content event of another participant and no read-receipt
\* of the bot lists s after the last such event.
Unread(body, s) ==
    /\ ForeignContentAt(body, s) # {}
    /\ \A j \in (Last(ForeignContentAt(body, s)) + 1)..Len(body.changes) :
          ~OwnReceiptOf(body.changes[j], s)

\* C22: for a batch on a tracked conversation, a content notification is
\* emitted for sequence s exactly when s has a content event of another
\* participant with no read-receipt of the bot listing s after the last one.
C22_EmittedAreTheUnread ==
    (HandledTracked /\ OnOneConversation(last.body)) =>
        \A s \in BatchSequences(last.body) :
            (EmittedFor(last.effects, last.body.dialogId, s) > 0) <=> Unread(last.body, s)

\* The messages of the content notifications emitted for sequence s.
EmittedMessages(effects, c, s) ==
    {effects[i].info[1] : i \in {j \in 1..Len(effects) :
                                    /\ effects[j].kind = "emit"
                                    /\ effects[j].name = CONTENT_NOTIFICATION
                                    /\ effects[j].conv = c
                                    /\ effects[j].seqs = <<s>>}}

\* C23 as stated: at most one content notification per sequence, and it
\* carries the message of the last content event of the batch with that
\* sequence.
C23_OnePerSequenceLastContent ==
    (last.event = "messaging" /\ OnOneConversation(last.body)) =>
        \A s \in BatchSequences(last.body) :
            /\ EmittedFor(last.effects, last.body.dialogId, s) <= 1
            /\ EmittedFor(last.effects, last.body.dialogId, s) = 1 =>
                  EmittedMessages(last.effects, last.body.dialogId, s) =
                      {last.body.changes[Last(ContentAt(last.body, s))].event.message}

\* C23 amended: at most one content notification per sequence, and it carries
\* the message of the last content event with that sequence that the local
\* agent did not originate.
C23_OnePerSequenceLastForeign ==
    (last.event = "messaging" /\ OnOneConversation(last.body)) =>
        \A s \in BatchSequences(last.body) :
            /\ EmittedFor(last.effects, last.body.dialogId, s) <= 1
            /\ EmittedFor(last.effects, last.body.dialogId, s) = 1 =>
                  EmittedMessages(last.effects, last.body.dialogId, s) =
                      {last.body.changes[Last(ForeignContentAt(last.body, s))].event.message}

\* The consumer's message 1 arrives twice with different texts: one
\* notification, with the later text.
C23_Witness ==
    /\ HandledTracked /\ OnOneConversation(last.body)
    /\ Len(last.body.changes) = 2
    /\ ForeignContentAt(last.body, 1) = {1, 2}
    /\ last.body.changes[1].event.message = "a"
    /\ last.body.changes[2].event.message = "b"
    /\ EmittedFor(last.effects, last.body.dialogId, 1) = 1
    /\ EmittedMessages(last.effects, last.body.dialogId, 1) = {"b"}

\* C24: when the bot's role in the tracked conversation is ASSIGNED_AGENT,
\* the effects of a batch are, message by message, a read-receipt for that one
\* sequence followed by the content notification of that message: as many
\* read-receipts as notifications, each receipt before its notification.
C24_ReadBeforeNotify ==
    (HandledTracked /\ SnapshotRole(last.body.dialogId) = Some("ASSIGNED_AGENT")) =>
        /\ Called(last.effects, "publishEvent") = Emitted(last.effects, CONTENT_NOTIFICATION)
        /\ Len(last.effects) = 2 * Emitted(last.effects, CONTENT_NOTIFICATION)
        /\ \A i \in 1..Len(last.effects) :
              last.effects[i].kind = "emit" =>
                  /\ i > 1
                  /\ last.effects[i - 1] =
                        markAsRead(last.effects[i].conv, last.effects[i].seqs)
                  /\ Len(last.effects[i].seqs) = 1

\* Two unread messages of the consumer while the bot is the assigned agent.
C24_Witness ==
    /\ HandledTracked
    /\ SnapshotRole(last.body.dialogId) = Some("ASSIGNED_AGENT")
    /\ Len(last.effects) = 4
    /\ last.effects[1] = markAsRead(last.body.dialogId, <<1>>)
    /\ last.effects[2].kind = "emit" /\ last.effects[2].seqs = <<1>>
    /\ last.effects[3] = markAsRead(last.body.dialogId, <<2>>)
    /\ last.effects[4].kind = "emit" /\ last.effects[4].seqs = <<2>>

-----------------------------------------------------------------------------
(* Properties of the tracked entries *)

\* The places of the records about conversation c in the batch.
RecordsOf(body, c) ==
    {i \in 1..Len(body.changes) : body.changes[i].result.convId = c}

\* What an UPSERT record leaves in the entry's detail snapshot and
\* last-content-event field.
Refreshed(entry, result) ==
    /\ entry.convId = Some(result.convId)
    /\ entry.conversationDetails = result.conversationDetails
    /\ entry.lastContentEventNotification =
          IF result.lastContentEventNotification = None
          THEN None
          ELSE Some([sequence |-> result.lastContentEventNotification[1].sequence,
                     serverTimestamp |-> result.lastContentEventNotification[1].serverTimestamp,
                     originatorId |-> result.lastContentEventNotification[1].originatorId,
                     originatorPId |-> result.lastContentEventNotification[1].originatorPId,
                     originatorMetadata |->
                         [role |-> result.lastContentEventNotification[1].originatorMetadata.role],
                     event |-> [type |-> result.lastContentEventNotification[1].event.type]])

\* C25: after a batch, the entry of an id whose last record is an UPSERT has
\* the details of that UPSERT and the reduced projection of its last content
\* event (none when the UPSERT has none), and the entries of the ids the batch
\* has no record for are as they were.
C25_UpsertRefreshesEntry ==
    last.event = "conversation" =>
        \A c \in ConvIds :
            IF RecordsOf(last.body, c) = {}
            THEN /\ (c \in DOMAIN myConversations) <=> (c \in DOMAIN last.before)
                 /\ c \in DOMAIN myConversations => myConversations[c] = last.before[c]
            ELSE LET record == last.body.changes[Last(RecordsOf(last.body, c))]
                 IN  record.type = "UPSERT" =>
                        /\ c \in DOMAIN myConversations
                        /\ Refreshed(myConversations[c], record.result)

\* C26: at most one reconnect timeout is pending, and between a closed event
\* and the next connected event reconnect() is called at most 35 times.
C26_OneReconnectTimer ==
    /\ Cardinality(timeouts) <= 1
    /\ (phase = "closed" => reconnects <= reconnectAttempts)

\* C27: a closed or connected event leaves the tracked table as it is, and
\* while the session is connected every tracked conversation has been
\* subscribed to messaging events since the latest connected event.
C27_SubscriptionsFollowTable ==
    [][/\ (last'.event \in {"closed", "connected"} => myConversations' = myConversations)
       /\ (phase' = "connected" => DOMAIN myConversations' \subseteq subscribed')]_vars

\* C28: every entry of the tracked table has a detail snapshot with a
\* participant list.
C28_EntriesHaveDetails ==
    \A c \in DOMAIN myConversations : myConversations[c].conversationDetails # None

-----------------------------------------------------------------------------
(* Properties of the samples *)

\* The join calls among the effects of a handler.
JoinCalls(effects) ==
    {i \in 1..Len(effects) :
        /\ effects[i].kind = "call"
        /\ effects[i].name = "updateConversationField"
        /\ effects[i].info[2] = "ADD"}

\* C29: the manager (and the reader, by the same listener) issues a join only
\* for an UPSERT record in whose participant list the bot has no role: none
\* for a DELETE record, none for a record in which the bot takes part.
C29_JoinOnlyNewUpserts ==
    last.event = "conversation" =>
        \A i \in JoinCalls(last.effects) :
            \E j \in 1..Len(last.body.changes) :
                /\ last.body.changes[j].type = "UPSERT"
                /\ last.body.changes[j].result.convId = last.effects[i].conv
                /\ \A k \in 1..Len(last.body.changes[j].result.conversationDetails[1].participants) :
                      last.body.changes[j].result.conversationDetails[1].participants[k].id # agentId

\* A reply of the agent sample: a call that is not a read-receipt.
IsReply(effect) ==
    effect.kind = "call" /\ ~(effect.name = "publishEvent" /\ effect.info[1] = "AcceptStatusEvent")

\* The places of the replies that follow the content notification at place i
\* with nothing but replies in between.
RepliesTo(effects, i) ==
    {k \in (i + 1)..Len(effects) : \A j \in (i + 1)..k : IsReply(effects[j])}

\* The consumer's spellings of 'transfer': the texts that have a letter of
\* 'transfer' or its capital at every place.
TransferSpellings ==
    {m \in AgentMessages :
        /\ m.typeof = "string"
        /\ Len(m.units) = Len(AgentTexts.transfer)
        /\ \A i \in 1..Len(m.units) :
              m.units[i] \in {AgentTexts.transfer[i], AgentTexts.transfer[i] - 32}}

\* C21 as stated: the agent sample answers a content notification with
\* outbound calls only when the originator's role is CONSUMER and the bot's
\* role in the tracked snapshot is ASSIGNED_AGENT, in that case always with at
\* least one call, and for the message 'transfer' with the text publish before
\* the transfer request.
C21_AgentAnswersConsumers ==
    last.event = "messaging" =>
        /\ \A k \in 1..Len(last.effects) :
              IsReply(last.effects[k]) =>
                  \E i \in 1..(k - 1) :
                      last.effects[i].kind = "emit" /\ k \in RepliesTo(last.effects, i)
        /\ \A i \in 1..Len(last.effects) :
              last.effects[i].kind = "emit" =>
                  /\ (RepliesTo(last.effects, i) # {}) <=>
                        (/\ last.effects[i].info[2] = "CONSUMER"
                         /\ SnapshotRole(last.effects[i].conv) = Some("ASSIGNED_AGENT"))
                  /\ (/\ RepliesTo(last.effects, i) # {}
                      /\ last.effects[i].info[1] \in TransferSpellings)
                     => /\ RepliesTo(last.effects, i) = {i + 1, i + 2}
                        /\ last.effects[i + 1].name = "publishEvent"
                        /\ last.effects[i + 1].info[1] = "ContentEvent"
                        /\ last.effects[i + 2].name = "updateConversationField"
                        /\ last.effects[i + 2].info[1] = "ParticipantsChange"
                        /\ last.effects[i + 2].info[2] = "REMOVE"

====
